---- MODULE Spec2Model ----
(***************************************************************************)
(* The importer service of trustify (modules/importer/src/service.rs):     *)
(* CRUD over importer rows with optimistic revision locking, the          *)
(* start/finish lifecycle and report persistence, run by concurrent        *)
(* callers against one relational store.                                   *)
(*                                                                         *)
(* Every store statement (insert, select, update, delete, commit) is one   *)
(* atomic step; a service call that issues several statements is several   *)
(* steps, so calls interleave at the await points of the code.             *)
(***************************************************************************)
EXTENDS Integers, Sequences, FiniteSets, TLC

\* ------------------------------------------------------------------ bounds

\* uuids handed out by Uuid::new_v4() (revisions and report ids)
MaxUuid == 5
\* highest instant OffsetDateTime::now_utc() reaches
MaxClock == 1
\* report rows in a drawn report table
MaxReports == 3
\* last page index and largest page size a get_reports call asks for
MaxPage == 1
MaxPageSize == 2
\* relationships in a drawn SPDX document
MaxRels == 2
\* packages in a drawn JSON document
MaxPackages == 3

\* the documents one walk of the import command visits
MaxDocuments == 3

\* ------------------------------------------------------------------ values

\* Option<T>
None == <<>>
Some(x) == <<x>>

Configs == {"c1", "c2"}
Errors == {"boom"}
Docs == {"doc"}
Times == 0 .. MaxClock

\* the caller of the sequential runs
Procs == {"p1"}
\* callers whose calls overlap
ConcProcs == {"p1", "p2"}
\* callers competing for one importer with revision-guarded updates
Racers == {"r1", "r2", "r3"}

\* importer::State
Waiting == "Waiting"
Running == "Running"
State == {Waiting, Running}

\* columns of the importer table other than the primary key
Cols ==
    {"revision", "state", "last_change", "last_success", "last_run",
     "last_error", "configuration"}

\* serde_json::to_value / from_value of ImporterConfiguration (externally tagged
\* enum with the single variant Sbom, renamed to camelCase)
to_value(configuration) == [sbom |-> configuration]
from_value(json) == json.sbom

\* Uuid::to_string and the SQL cast of the revision column to text: both give
\* the hyphenated lower-case rendering of the uuid
RevText(uuid) == "uuid-" \o ToString(uuid)

\* ------------------------------------------------------------------ state

VARIABLES
    importers,  \* committed importer table: name -> row, for the names present
    reports,    \* committed importer_report table: a set of rows
    uuids,      \* number of uuids Uuid::new_v4() has produced
    clock,      \* the instant OffsetDateTime::now_utc() returns
    pc,         \* per caller: the statement its call is about to issue
    call,       \* per caller: the operation and arguments of its call
    tx,         \* per caller: the open transaction's uncommitted writes
    ret,        \* per caller: the result its last call returned
    everRev,    \* history: name -> the revisions rows of that name have carried
    gone,       \* history: name -> the revisions its deleted rows had carried
    finished,   \* history: name -> the update_finish calls with a report that
                \* returned success since the name was last deleted
    sbom_data,  \* the SPDX document ingest_spdx was called with
    json,       \* the JSON document fix_license repairs
    at,         \* the statement ingest_spdx or fix_license is about to run
    idx,        \* the index of the package the running loop is at
    creators,   \* the batch creators and product_packages of ingest_spdx
    graph,      \* the rows written through the transaction of the ingest
    flushed,    \* history: the creators whose create() has succeeded, in order
    sink,       \* the messages the ReportSink has received
    changed,    \* the changed flag of fix_license
    outcome,    \* the result ingest_spdx or fix_license returned
    base,       \* committed vulnerability, advisory and link rows
    loads,      \* per CVE loader: its record, position, transaction, result
    ids,        \* number of advisory ids the store has handed out
    input,      \* the text Purl::from_str is given
    parsed,     \* the result of parsing input
    rendered,   \* the Display rendering of the parsed purl
    reparsed,   \* the result of parsing rendered
    identity,   \* the result of uuids() on the parsed purl
    run         \* the single-shot SBOM import: position, report, result

importerVars ==
    <<importers, reports, uuids, clock, pc, call, tx, ret, everRev, gone,
      finished>>
spdxVars ==
    <<sbom_data, json, at, idx, creators, graph, flushed, sink, changed, outcome>>
cveVars == <<base, loads, ids>>
purlVars == <<input, parsed, rendered, reparsed, identity>>
runVars == <<run>>
vars == <<importerVars, spdxVars, cveVars, purlVars, runVars>>

\* what the importer service, and what the SPDX ingest, never touches
outsideImporter == <<spdxVars, cveVars, purlVars, runVars>>
outsideSpdx == <<importerVars, cveVars, purlVars, runVars>>

\* the importer names the callers of a run use
Names == DOMAIN everRev

\* a function with no argument: an empty column list, an empty write set
Empty == [x \in {} |-> x]

NoCall ==
    [op |-> "none", name |-> "", expected |-> None, configuration |-> None,
     last_run |-> None, last_error |-> None, report |-> None, now |-> None,
     revision |-> None, creation |-> None, id |-> None, paginated |-> None,
     result |-> None, missed |-> None]
NoTx == [writes |-> Empty, reports |-> {}]
NoRet == [kind |-> "none", value |-> None]

\* Result<T, Error>
Ok(v) == [kind |-> "Ok", value |-> v]
Err(kind) == [kind |-> kind, value |-> None]

\* ------------------------------------------------------------------ store

NewImporterRan(configuration, uuid, now) ==
    [revision |-> uuid, state |-> Waiting, last_change |-> now,
     last_run |-> Some(now), last_success |-> None, last_error |-> None,
     configuration |-> to_value(configuration)]

\* the row of a create() that gives every new importer the same revision
NewImporterSameRevision(configuration, uuid, now) ==
    [revision |-> 1, state |-> Waiting, last_change |-> now,
     last_success |-> None, last_run |-> None, last_error |-> None,
     configuration |-> to_value(configuration)]

\* the row create() inserts
NewImporter(configuration, uuid, now) ==
    [revision |-> uuid, state |-> Waiting, last_change |-> now,
     last_success |-> None, last_run |-> None, last_error |-> None,
     configuration |-> to_value(configuration)]

\* RevisionedImporter::try_from(Model)
RevisionedImporter(name, row) ==
    [revision |-> RevText(row.revision),
     value |->
        [name |-> name, state |-> row.state, last_change |-> row.last_change,
         last_success |-> row.last_success, last_run |-> row.last_run,
         last_error |-> row.last_error,
         configuration |-> from_value(row.configuration)]]

\* read(): find_by_id(name).one(), then the conversion
read(store, name) ==
    IF name \in DOMAIN store
    THEN Some(RevisionedImporter(name, store[name]))
    ELSE None

\* the filter without its revision clause
SelectedByName(store, name, expected) == {n \in DOMAIN store : n = name}

\* the rows a statement's filters select: name = ? and, when a revision is
\* expected, revision::text = ?
Selected(store, name, expected) ==
    {n \in DOMAIN store :
        /\ n = name
        /\ expected # None => RevText(store[n].revision) = expected[1]}

\* the column assignments without the one of the revision
SetColsKeepRevision(row, updates, uuid) ==
    [c \in Cols |-> IF c \in DOMAIN updates THEN updates[c] ELSE row[c]]

\* the column assignments of update(): the revision first, then the caller's
SetCols(row, updates, uuid) ==
    [c \in Cols |->
        IF c \in DOMAIN updates THEN updates[c]
        ELSE IF c = "revision" THEN uuid
        ELSE row[c]]

\* an update statement that rewrites the row of the name whatever its
\* revision and counts only the rows of the expected revision
updateUncounted(store, name, expected, updates, uuid) ==
    LET hit == Selected(store, name, expected)
        all == SelectedByName(store, name, expected)
    IN  [rows_affected |-> Cardinality(hit),
         rows |-> [n \in all |-> SetCols(store[n], updates, uuid)]]

\* the update statement of update(): the rows it rewrites and their count
update(store, name, expected, updates, uuid) ==
    LET hit == Selected(store, name, expected)
    IN  [rows_affected |-> Cardinality(hit),
         rows |-> [n \in hit |-> SetCols(store[n], updates, uuid)]]

\* the store with the rewritten rows in place
Apply(store, rows) ==
    [n \in DOMAIN store |-> IF n \in DOMAIN rows THEN rows[n] ELSE store[n]]

\* the follow-up query with its two outcomes exchanged
UpdateErrorSwapped(store, name) ==
    IF Cardinality({n \in DOMAIN store : n = name}) = 0
    THEN Err("MidAirCollision")
    ELSE Err("NotFound")

\* the follow-up query of update(): find_by_id(name).count(&self.db)
UpdateError(store, name) ==
    IF Cardinality({n \in DOMAIN store : n = name}) = 0
    THEN Err("NotFound")
    ELSE Err("MidAirCollision")

\* update_configuration's column list with the state reset and the time of
\* the change recorded
ConfigurationUpdatesResets(configuration) ==
    ("configuration" :> to_value(configuration)) @@ ("state" :> Waiting)
        @@ ("last_change" :> clock)

\* update_configuration's column list
ConfigurationUpdates(configuration) ==
    [c \in {"configuration"} |-> to_value(configuration)]

\* update_start's column list without the state
StartUpdatesClearError(now) ==
    [last_change |-> now, state |-> Running, last_error |-> None]

StartUpdatesNoState(now) == "last_change" :> now

\* update_start's column list
StartUpdates(now) ==
    ("last_change" :> now) @@ ("state" :> Running)

\* update_finish's column list with last_success taken from last_run
FinishUpdatesSuccessAtLastRun(now, last_run, last_error) ==
    ("last_error" :> last_error) @@ ("last_run" :> Some(last_run))
        @@ ("state" :> Waiting) @@ ("last_change" :> now)
        @@ (IF last_error = None THEN "last_success" :> Some(last_run)
            ELSE Empty)

\* update_finish's column list with last_success set whatever the outcome
FinishUpdatesAlwaysSuccess(now, last_run, last_error) ==
    ("last_error" :> last_error) @@ ("last_run" :> Some(last_run))
        @@ ("state" :> Waiting) @@ ("last_change" :> now)
        @@ ("last_success" :> Some(now))

\* update_finish's column list
FinishUpdates(now, last_run, last_error) ==
    ("last_error" :> last_error) @@ ("last_run" :> Some(last_run))
        @@ ("state" :> Waiting) @@ ("last_change" :> now)
        @@ (IF last_error = None THEN "last_success" :> Some(now) ELSE Empty)

\* every caller passing the pool
ConnectionPool(op) == "db"

\* the connection update() runs its statement on: update_finish passes its
\* transaction, the other two pass the pool
Connection(op) == IF op = "update_finish" THEN "tx" ELSE "db"

\* the row update_finish inserts into importer_report
NewReport(uuid, name, now, last_error, report) ==
    [id |-> uuid, importer |-> name, creation |-> now, error |-> last_error,
     report |-> report]

\* the delete statement without its revision clause
deleteByName(store, name, expected) ==
    LET hit == SelectedByName(store, name, expected)
    IN  [rows_affected |-> Cardinality(hit),
         store |-> [n \in DOMAIN store \ hit |-> store[n]]]

\* the delete statement of delete(): the rows it leaves and the count of the
\* rows it removed
delete(store, name, expected) ==
    LET hit == Selected(store, name, expected)
    IN  [rows_affected |-> Cardinality(hit),
         store |-> [n \in DOMAIN store \ hit |-> store[n]]]

\* the foreign key of importer_report on importer: deleting an importer
\* deletes its reports
OnDeleteCascade(reps, store) == {r \in reps : r.importer \in DOMAIN store}

\* the revisions callers can present for a name: none, or the text of a
\* revision a read of that name has returned at some time
Expected(name) == {None} \cup {Some(RevText(u)) : u \in everRev[name]}

\* another caller's open transaction holds the row's lock
Locked(p, name) == \E q \in DOMAIN pc \ {p} : name \in DOMAIN tx[q].writes

\* the history of revisions after the store changed
Seen(store) ==
    [n \in Names |->
        everRev[n] \cup (IF n \in DOMAIN store THEN {store[n].revision} ELSE {})]

\* ------------------------------------------------------------------ calls

\* the arguments a call still holds once its statements have used the others
Trim(c) ==
    [NoCall EXCEPT !.op = c.op, !.name = c.name, !.expected = c.expected]

\* a call ends: its result is returned and its transaction, if still open, is
\* dropped (rolled back)
Returns(p, r) ==
    /\ pc' = [pc EXCEPT ![p] = "done"]
    /\ ret' = [ret EXCEPT ![p] = r]
    /\ tx' = [tx EXCEPT ![p] = NoTx]

\* a call begins: it has evaluated its arguments, drawing as many uuids as
\* they hold, and is about to issue its first statement; nothing is written
\* yet
Calls(p, position, c, drawn) ==
    /\ pc[p] = "idle"
    /\ drawn > 0 => uuids + drawn <= MaxUuid
    /\ uuids' = uuids + drawn
    /\ pc' = [pc EXCEPT ![p] = position]
    /\ call' = [call EXCEPT ![p] = c]
    /\ UNCHANGED <<importers, reports, clock, tx, ret, everRev,
                   gone, finished, outsideImporter>>

\* create(name, configuration): the entity is built, with a new uuid as its
\* revision and the time read from the clock, and then its insert is awaited
Create(p) ==
    \/ \E name \in Names, configuration \in Configs :
        Calls(p, "create",
              [NoCall EXCEPT !.op = "create", !.name = name,
                             !.configuration = Some(configuration),
                             !.revision = Some(uuids + 1),
                             !.now = Some(clock)],
              1)
    \/ LET c == call[p]
       IN  /\ pc[p] = "create"
           /\ ~Locked(p, c.name)
           /\ call' = [call EXCEPT ![p] =
                   [NoCall EXCEPT !.op = "create", !.name = c.name]]
           /\ IF c.name \in DOMAIN importers
              THEN /\ Returns(p, Err("AlreadyExists"))
                   /\ UNCHANGED <<importers, everRev>>
              ELSE /\ importers' =
                           (c.name :> NewImporter(c.configuration[1],
                                                  c.revision[1], c.now[1]))
                               @@ importers
                   /\ everRev' = Seen(importers')
                   /\ Returns(p, Ok(None))
           /\ UNCHANGED <<reports, uuids, clock, gone, finished,
                          outsideImporter>>

\* read(name): one select
Read(p) ==
    \/ \E name \in Names :
        Calls(p, "read", [NoCall EXCEPT !.op = "read", !.name = name], 0)
    \/ /\ pc[p] = "read"
       /\ Returns(p, Ok(read(importers, call[p].name)))
       /\ UNCHANGED <<importers, reports, uuids, clock, call, everRev,
                      gone, finished, outsideImporter>>

\* history: what there was under the name when an update statement affected no
\* row: nothing, or a row of some revision
Missed(name) ==
    IF name \in DOMAIN importers THEN Some(importers[name].revision) ELSE None

\* update() from its update statement, built with the uuid update() drew for
\* the revision and the column list of the caller, to the statement's return;
\* the statement runs on the connection the caller passed; c is the call.
\* update_finish goes on to build the report entity, if it has a report, with
\* a new uuid as its id and the time read from the clock as its creation
Update(p, c, updates) ==
    LET res == update(importers, c.name, c.expected, updates, c.revision[1])
    IN  /\ pc[p] = "update"
        /\ ~Locked(p, c.name)
        /\ IF Connection(c.op) = "tx"
           THEN /\ tx' = [tx EXCEPT ![p].writes = res.rows]
                /\ UNCHANGED <<importers, everRev>>
           ELSE /\ importers' = Apply(importers, res.rows)
                /\ everRev' = Seen(importers')
                /\ UNCHANGED tx
        /\ IF res.rows_affected = 0
           THEN /\ pc' = [pc EXCEPT ![p] = "count"]
                /\ call' = [call EXCEPT
                               ![p] = [Trim(c) EXCEPT
                                          !.missed = Some(Missed(c.name))]]
                /\ UNCHANGED <<uuids, ret>>
           ELSE IF c.op = "update_finish" /\ c.report # None
                THEN /\ uuids < MaxUuid
                     /\ uuids' = uuids + 1
                     /\ pc' = [pc EXCEPT ![p] = "insert"]
                     /\ call' = [call EXCEPT ![p] =
                             [c EXCEPT !.id = Some(uuids + 1),
                                       !.creation = Some(clock)]]
                     /\ UNCHANGED ret
                ELSE IF c.op = "update_finish"
                     THEN /\ pc' = [pc EXCEPT ![p] = "commit"]
                          /\ call' = [call EXCEPT ![p] = c]
                          /\ UNCHANGED <<uuids, ret>>
                     ELSE /\ pc' = [pc EXCEPT ![p] = "done"]
                          /\ call' = [call EXCEPT ![p] = Trim(c)]
                          /\ ret' = [ret EXCEPT ![p] = Ok(None)]
                          /\ UNCHANGED uuids
        /\ UNCHANGED <<reports, clock, gone, finished, outsideImporter>>

\* update_configuration(name, expected_revision, configuration): the column
\* list is built and update() is awaited
UpdateConfiguration(p) ==
    \/ \E name \in Names, configuration \in Configs :
        \E expected \in Expected(name) :
            Calls(p, "update",
                  [NoCall EXCEPT !.op = "update_configuration",
                                 !.name = name, !.expected = expected,
                                 !.configuration = Some(configuration),
                                 !.revision = Some(uuids + 1)],
                  1)
    \/ /\ pc[p] = "update"
       /\ call[p].op = "update_configuration"
       /\ Update(p, call[p], ConfigurationUpdates(call[p].configuration[1]))

\* update_start(name, expected_revision): the column list is built, with the
\* time read from the clock, and update() is awaited
UpdateStart(p) ==
    \/ \E name \in Names :
        \E expected \in Expected(name) :
            Calls(p, "update",
                  [NoCall EXCEPT !.op = "update_start", !.name = name,
                                 !.expected = expected, !.now = Some(clock),
                                 !.revision = Some(uuids + 1)],
                  1)
    \/ /\ pc[p] = "update"
       /\ call[p].op = "update_start"
       /\ Update(p, call[p], StartUpdates(call[p].now[1]))

\* update_finish(name, expected_revision, last_run, last_error, report) up to
\* the return of update(): the begin of the transaction is awaited; when it
\* returns the clock is read, the column list built and update() entered,
\* which draws the uuid of the revision; then the update statement is awaited
\* on the transaction. last_run is the instant the run began, which is not
\* after the call
UpdateFinish(p) ==
    \/ \E name \in Names, last_run \in 0 .. clock,
          last_error \in {None} \cup {Some(e) : e \in Errors},
          report \in {None} \cup {Some(d) : d \in Docs} :
        \E expected \in Expected(name) :
            Calls(p, "begin",
                  [NoCall EXCEPT !.op = "update_finish", !.name = name,
                                 !.expected = expected,
                                 !.last_run = Some(last_run),
                                 !.last_error = last_error, !.report = report],
                  0)
    \/ /\ pc[p] = "begin"
       /\ uuids < MaxUuid
       /\ uuids' = uuids + 1
       /\ pc' = [pc EXCEPT ![p] = "update"]
       /\ call' = [call EXCEPT ![p].now = Some(clock),
                               ![p].revision = Some(uuids + 1)]
       /\ UNCHANGED <<importers, reports, clock, tx, ret, everRev,
                      gone, finished, outsideImporter>>
    \/ /\ pc[p] = "update"
       /\ call[p].op = "update_finish"
       /\ Update(p, call[p],
                 FinishUpdates(call[p].now[1], call[p].last_run[1],
                               call[p].last_error))

\* update(): no row was affected, so the follow-up query on the pool decides
\* the error
UpdateCount(p) ==
    /\ pc[p] = "count"
    /\ Returns(p, UpdateError(importers, call[p].name))
    /\ UNCHANGED <<importers, reports, uuids, clock, call, everRev,
                 gone, finished, outsideImporter>>

\* update_finish: the report, built when update() returned, is inserted in the
\* transaction
FinishInsert(p) ==
    LET c == call[p]
    IN  /\ pc[p] = "insert"
        /\ tx' = [tx EXCEPT ![p].reports =
                @ \cup {NewReport(c.id[1], c.name, c.creation[1],
                                  c.last_error, c.report[1])}]
        /\ pc' = [pc EXCEPT ![p] = "commit"]
        /\ UNCHANGED <<importers, reports, uuids, clock, call, ret, everRev,
                     gone, finished, outsideImporter>>

\* a commit whose report takes the place of the reports the importer had
FinishCommitReplacesReport(p) ==
    /\ pc[p] = "commit"
    /\ importers' = Apply(importers, tx[p].writes)
    /\ reports' = IF tx[p].reports = {} THEN reports
                  ELSE {r \in reports : r.importer # call[p].name}
                            \cup tx[p].reports
    /\ everRev' = Seen(importers')
    /\ finished' = IF call[p].report # None
                   THEN [finished EXCEPT ![call[p].name] = @ + 1]
                   ELSE finished
    /\ call' = [call EXCEPT ![p] = Trim(@)]
    /\ Returns(p, Ok(None))
    /\ UNCHANGED <<uuids, clock, gone, outsideImporter>>

\* update_finish: the transaction commits
FinishCommit(p) ==
    /\ pc[p] = "commit"
    /\ importers' = Apply(importers, tx[p].writes)
    /\ reports' = reports \cup tx[p].reports
    /\ everRev' = Seen(importers')
    /\ finished' = IF call[p].report # None
                   THEN [finished EXCEPT ![call[p].name] = @ + 1]
                   ELSE finished
    /\ call' = [call EXCEPT ![p] = Trim(@)]
    /\ Returns(p, Ok(None))
    /\ UNCHANGED <<uuids, clock, gone, outsideImporter>>

\* delete(name, expected_revision): one delete statement
Delete(p) ==
    \/ \E name \in Names :
        \E expected \in Expected(name) :
            Calls(p, "delete",
                  [NoCall EXCEPT !.op = "delete", !.name = name,
                                 !.expected = expected],
                  0)
    \/ LET c == call[p]
           res == delete(importers, c.name, c.expected)
       IN  /\ pc[p] = "delete"
           /\ ~Locked(p, c.name)
           /\ importers' = res.store
           /\ reports' = OnDeleteCascade(reports, res.store)
           /\ Returns(p, Ok(Some(res.rows_affected > 0)))
           /\ gone' = IF res.rows_affected > 0
                      THEN [gone EXCEPT ![c.name] = everRev[c.name]]
                      ELSE gone
           /\ finished' = IF res.rows_affected > 0
                          THEN [finished EXCEPT ![c.name] = 0]
                          ELSE finished
           /\ UNCHANGED <<uuids, clock, call, everRev, outsideImporter>>

\* the statements a call awaits: the begin of the transaction, the insert of
\* create, the select of read, the update statement and its follow-up count,
\* the insert of the report, the commit, the delete statement, and the two
\* queries of get_reports
Statements ==
    {"begin", "create", "read", "update", "count", "insert", "commit",
     "delete", "fetch_page", "num_items"}

\* the statement a call awaits fails with a database error (the connection is
\* lost, the statement times out) and has no effect: `?` returns the error
\* and drops the transaction, if one is open
DbFail(p) ==
    /\ pc[p] \in Statements
    /\ call' = [call EXCEPT ![p] = Trim(@)]
    /\ Returns(p, Err("Database"))
    /\ UNCHANGED <<importers, reports, uuids, clock, everRev, gone,
                   finished, outsideImporter>>

\* the caller takes the result and is free for its next call
Return(p) ==
    /\ pc[p] = "done"
    /\ pc' = [pc EXCEPT ![p] = "idle"]
    /\ call' = [call EXCEPT ![p] = NoCall]
    /\ ret' = [ret EXCEPT ![p] = NoRet]
    /\ UNCHANGED <<importers, reports, uuids, clock, tx, everRev,
                 gone, finished, outsideImporter>>

\* time passes
Tick ==
    /\ clock < MaxClock
    /\ clock' = clock + 1
    /\ UNCHANGED <<importers, reports, uuids, pc, call, tx, ret,
                 everRev, gone, finished, outsideImporter>>

\* ------------------------------------------------------------------ reports

\* ImporterReport::from: the row as the API returns it
ImporterReport(r) ==
    [id |-> RevText(r.id), importer |-> r.importer, creation |-> r.creation,
     error |-> r.error, report |-> r.report]

\* the orders in which the database can return the rows of a set under
\* ORDER BY creation DESC: rows of equal creation come in any order
OrderByDesc(rows) ==
    {o \in [1 .. Cardinality(rows) -> rows] :
        /\ \A i, j \in DOMAIN o : i # j => o[i] # o[j]
        /\ \A i, j \in DOMAIN o : i < j => o[i].creation >= o[j].creation}

\* fetch_page(page) of a paginator of page_size rows
FetchPage(o, page, page_size) ==
    [i \in 1 .. IF Len(o) <= page * page_size THEN 0
                ELSE IF Len(o) - page * page_size < page_size
                     THEN Len(o) - page * page_size
                     ELSE page_size
        |-> ImporterReport(o[page * page_size + i])]

get_reportsAsc(reps, name, paginated) ==
    {FetchPage([i \in DOMAIN o |-> o[Len(o) + 1 - i]],
               paginated.page, paginated.page_size) :
        o \in OrderByDesc({r \in reps : r.importer = name})}

\* get_reports(name, paginated): the pages the query can return
get_reports(reps, name, paginated) ==
    {FetchPage(o, paginated.page, paginated.page_size) :
        o \in OrderByDesc({r \in reps : r.importer = name})}

\* PaginatedResults::new(paginated, result, &pagination), of
\* trustify_common::model: the items of the page with the total the paginator
\* counts
PaginatedResults(items, total) == [items |-> items, total |-> total]

\* get_reports(name, paginated): the page is fetched; then the paginator
\* counts the rows of the importer, a second query on the pool
GetReports(p) ==
    \/ \E name \in Names, page \in 0 .. MaxPage, page_size \in 1 .. MaxPageSize :
        Calls(p, "fetch_page",
              [NoCall EXCEPT !.op = "get_reports", !.name = name,
                             !.paginated =
                                 Some([page |-> page, page_size |-> page_size])],
              0)
    \/ /\ pc[p] = "fetch_page"
       /\ \E items \in get_reports(reports, call[p].name,
                                   call[p].paginated[1]) :
            call' = [call EXCEPT ![p].result = Some(items)]
       /\ pc' = [pc EXCEPT ![p] = "num_items"]
       /\ UNCHANGED <<importers, reports, uuids, clock, tx, ret, everRev,
                      gone, finished, outsideImporter>>
    \/ /\ pc[p] = "num_items"
       /\ call' = [call EXCEPT ![p].result = None]
       /\ Returns(p, Ok(Some(PaginatedResults(
                    call[p].result[1],
                    Cardinality({r \in reports : r.importer = call[p].name})))))
       /\ UNCHANGED <<importers, reports, uuids, clock, everRev,
                      gone, finished, outsideImporter>>

\* ------------------------------------------------------------------ system

\* no document is being ingested or repaired
\* no CVE record is being loaded, no purl parsed, no import run
NoLoad ==
    /\ base = [vulnerabilities |-> Empty, advisories |-> Empty,
               links |-> Empty]
    /\ loads = Empty
    /\ ids = 0

NoPurl ==
    /\ input = None
    /\ parsed = None
    /\ rendered = None
    /\ reparsed = None
    /\ identity = None

NoRun == run = None

NoIngest ==
    /\ sbom_data = None
    /\ json = None
    /\ at = "idle"
    /\ idx = 0
    /\ creators = None
    /\ graph = None
    /\ flushed = <<>>
    /\ sink = <<>>
    /\ changed = FALSE
    /\ outcome = None

InitCallers(ps) ==
    /\ pc = [p \in ps |-> "idle"]
    /\ call = [p \in ps |-> NoCall]
    /\ tx = [p \in ps |-> NoTx]
    /\ ret = [p \in ps |-> NoRet]

\* the empty store of a fresh database
Init ==
    /\ importers = Empty
    /\ reports = {}
    /\ uuids = 0
    /\ clock = 0
    /\ everRev = [n \in {"a"} |-> {}]
    /\ gone = [n \in {"a"} |-> {}]
    /\ finished = [n \in {"a"} |-> 0]
    /\ InitCallers(Procs)
    /\ NoIngest
    /\ NoLoad
    /\ NoPurl
    /\ NoRun

Next ==
    \/ Tick
    \/ \E p \in DOMAIN pc :
        \/ Create(p)
        \/ Read(p)
        \/ UpdateConfiguration(p)
        \/ UpdateStart(p)
        \/ UpdateFinish(p)
        \/ UpdateCount(p)
        \/ FinishInsert(p)
        \/ FinishCommit(p)
        \/ Delete(p)
        \/ GetReports(p)
        \/ DbFail(p)
        \/ Return(p)

\* one caller working on one importer name from the empty store, call after
\* call
Spec == Init /\ [][Next]_vars

\* what earlier runs of an importer leave of last_run, last_success and
\* last_error: never run, run successfully, failed, failed after a success
Histories ==
    {<<None, None, None>>, <<Some(0), Some(0), None>>,
     <<Some(0), None, Some("boom")>>, <<Some(0), Some(0), Some("boom")>>}

\* the rows an importer can have reached when overlapping calls arrive; its
\* current revision is the first uuid
InitRows ==
    {[revision |-> 1, state |-> s, last_change |-> 0, last_run |-> h[1],
      last_success |-> h[2], last_error |-> h[3],
      configuration |-> to_value("c1")] : s \in State, h \in Histories}

\* a store sequential calls have produced: importer "a" is present in one of
\* its rows, or was deleted at revision 1
InitConcStore ==
    /\ importers \in {Empty} \cup {"a" :> r : r \in InitRows}
    /\ reports = {}
    /\ uuids = 1
    /\ clock = 0
    /\ everRev = [n \in {"a"} |-> {1}]
    /\ gone = [n \in {"a"} |-> IF importers = Empty THEN {1} ELSE {}]
    /\ finished = [n \in {"a"} |-> 0]
    /\ NoIngest
    /\ NoLoad
    /\ NoPurl
    /\ NoRun

InitConc == InitConcStore /\ InitCallers(ConcProcs)

NextConc ==
    \/ Tick
    \/ \E p \in DOMAIN pc :
        \/ Create(p)
        \/ Read(p)
        \/ UpdateConfiguration(p)
        \/ UpdateStart(p)
        \/ UpdateFinish(p)
        \/ UpdateCount(p)
        \/ FinishInsert(p)
        \/ FinishCommit(p)
        \/ Delete(p)
        \/ GetReports(p)
        \/ DbFail(p)

\* two callers, each making one call on the same importer, statements
\* interleaved in every order
SpecConc == InitConc /\ [][NextConc]_vars

\* the importer exists and waits for its next run
InitRace ==
    /\ InitConcStore
    /\ "a" \in DOMAIN importers
    /\ importers["a"].state = Waiting
    /\ InitCallers(Racers)

NextRace ==
    \E p \in DOMAIN pc :
        \/ UpdateConfiguration(p)
        \/ UpdateStart(p)
        \/ UpdateCount(p)

\* three callers, each making one update_configuration or update_start call
\* on the same existing importer, with no other operation and no database
\* failure
SpecRace == InitRace /\ [][NextRace]_vars

\* ------------------------------------------------------------------ errors

\* the variants of Error
ErrorKinds == {"AlreadyExists", "NotFound", "MidAirCollision", "Database", "Json"}

\* Display of Error
ErrorMessage(kind, name) ==
    CASE kind = "AlreadyExists" -> "importer '" \o name \o "' already exists"
      [] kind = "NotFound" -> "importer '" \o name \o "' not found"
      [] kind = "MidAirCollision" -> "mid air collision"
      [] kind = "Database" -> "database error: DbErr"
      [] kind = "Json" -> "serde_json::Error"

ErrorInformation(error, message) ==
    [error |-> error, message |-> message, details |-> None]

error_responseNotFoundFirst(kind, name) ==
    CASE kind = "AlreadyExists" ->
            [status |-> 404,
             body |-> ErrorInformation("AlreadyExists", ErrorMessage(kind, name))]
      [] kind = "NotFound" ->
            [status |-> 409,
             body |-> ErrorInformation("NotFound", ErrorMessage(kind, name))]
      [] kind = "MidAirCollision" ->
            [status |-> 412,
             body |-> ErrorInformation("MidAirCollision", ErrorMessage(kind, name))]
      [] OTHER ->
            [status |-> 500,
             body |-> ErrorInformation("Internal", ErrorMessage(kind, name))]

\* Error::error_response
error_response(kind, name) ==
    CASE kind = "AlreadyExists" ->
            [status |-> 409,
             body |-> ErrorInformation("AlreadyExists", ErrorMessage(kind, name))]
      [] kind = "NotFound" ->
            [status |-> 404,
             body |-> ErrorInformation("NotFound", ErrorMessage(kind, name))]
      [] kind = "MidAirCollision" ->
            [status |-> 412,
             body |-> ErrorInformation("MidAirCollision", ErrorMessage(kind, name))]
      [] OTHER ->
            [status |-> 500,
             body |-> ErrorInformation("Internal", ErrorMessage(kind, name))]

\* the web framework turns the error a call returned into its response
ErrorResponse(p) ==
    /\ pc[p] = "done"
    /\ ret[p].kind \in ErrorKinds
    /\ pc' = [pc EXCEPT ![p] = "responded"]
    /\ ret' = [ret EXCEPT ![p] =
            [kind |-> "HttpResponse",
             value |-> Some(error_response(ret[p].kind, call[p].name))]]
    /\ UNCHANGED <<importers, reports, uuids, clock, call, tx,
                 everRev, gone, finished, outsideImporter>>

\* the operation that returns an error of the kind
ErrorSource(kind) ==
    CASE kind = "AlreadyExists" -> "create"
      [] kind \in {"NotFound", "MidAirCollision"} -> "update_configuration"
      [] OTHER -> "read"

\* the report of the k-th run: update_finish drew the uuid 2k + 1 for the
\* revision and the uuid 2k + 2 for the report
RunReports(k) ==
    {NewReport(2 * k + 2, n, t, None, "doc") : n \in {"a", "b"}, t \in Times}

\* the report tables runs of the importers "a" and "b" can have left: of each
\* run one report, or none
ReportTables ==
    {t \in SUBSET UNION {RunReports(k) : k \in 1 .. MaxReports} :
        \A r1, r2 \in t : r1.id = r2.id => r1 = r2}

\* the importers "a" and "b", created first and last finished without a
\* report, with a report table their runs have left; the caller is idle or
\* holds an error a call on "a" has returned
InitApi ==
    /\ reports \in ReportTables
    /\ uuids = 2 * MaxReports + 4
    /\ clock = MaxClock
    /\ importers =
            [n \in {"a", "b"} |->
                [revision |-> 2 * MaxReports + (IF n = "a" THEN 3 ELSE 4),
                 state |-> Waiting, last_change |-> MaxClock,
                 last_run |-> Some(0), last_success |-> Some(MaxClock),
                 last_error |-> None, configuration |-> to_value("c1")]]
    /\ everRev =
            [n \in {"a", "b"} |->
                {IF n = "a" THEN 1 ELSE 2, importers[n].revision}
                    \cup {r.id - 1 : r \in {x \in reports : x.importer = n}}]
    /\ gone = [n \in {"a", "b"} |-> {}]
    /\ finished =
            [n \in {"a", "b"} |-> Cardinality({r \in reports : r.importer = n})]
    /\ tx = [p \in Procs |-> NoTx]
    /\ NoIngest
    /\ NoLoad
    /\ NoPurl
    /\ NoRun
    /\ \/ /\ pc = [p \in Procs |-> "idle"]
          /\ call = [p \in Procs |-> NoCall]
          /\ ret = [p \in Procs |-> NoRet]
       \/ \E kind \in ErrorKinds :
            /\ pc = [p \in Procs |-> "done"]
            /\ call = [p \in Procs |->
                    [NoCall EXCEPT !.op = ErrorSource(kind), !.name = "a"]]
            /\ ret = [p \in Procs |-> Err(kind)]

NextApi ==
    \E p \in DOMAIN pc :
        \/ GetReports(p)
        \/ DbFail(p)
        \/ ErrorResponse(p)

\* one caller reading report pages, and the responses of failed calls
SpecApi == InitApi /\ [][NextApi]_vars

\* ------------------------------------------------------------------ spdx

\* spdx_rs::models::RelationshipType
RelationshipType ==
    {"Describes", "DescribedBy", "Contains", "ContainedBy", "DependsOn",
     "DependencyOf", "DependencyManifestOf", "BuildDependencyOf",
     "DevDependencyOf", "OptionalDependencyOf", "ProvidedDependencyOf",
     "TestDependencyOf", "RuntimeDependencyOf", "ExampleOf", "Generates",
     "GeneratedFrom", "AncestorOf", "DescendantOf", "VariantOf",
     "DistributionArtifact", "PatchFor", "PatchApplied", "CopyOf", "FileAdded",
     "FileDeleted", "FileModified", "ExpandedFromArchive", "DynamicLink",
     "StaticLink", "DataFileOf", "TestCaseOf", "BuildToolOf", "DevToolOf",
     "TestOf", "TestToolOf", "DocumentationOf", "OptionalComponentOf",
     "MetafileOf", "PackageOf", "Amends", "PrerequisiteFor", "HasPrerequisite",
     "RequirementDescriptionFor", "SpecificationFor", "Other"}

SpdxRelationshipAsWritten(left, rel, right) ==
    IF rel \in {"Contains", "ContainedBy", "Describes", "DescribedBy",
                "DependsOn", "DependencyOf", "DevDependencyOf",
                "OptionalDependencyOf", "ProvidedDependencyOf",
                "TestDependencyOf", "RuntimeDependencyOf", "ExampleOf",
                "Generates", "GeneratedFrom", "AncestorOf", "DescendantOf",
                "VariantOf", "BuildToolOf", "DevToolOf"}
    THEN Some(<<left,
                CASE rel = "Contains" -> "ContainedBy"
                  [] rel = "Describes" -> "DescribedBy"
                  [] rel = "DependsOn" -> "DependencyOf"
                  [] rel = "Generates" -> "GeneratedFrom"
                  [] rel = "DescendantOf" -> "AncestorOf"
                  [] OTHER -> rel,
                right>>)
    ELSE None

SpdxRelationshipKeepsUnmapped(left, rel, right) ==
    CASE rel = "Contains" -> Some(<<right, "ContainedBy", left>>)
      [] rel = "Describes" -> Some(<<right, "DescribedBy", left>>)
      [] rel = "DependsOn" -> Some(<<right, "DependencyOf", left>>)
      [] rel = "Generates" -> Some(<<right, "GeneratedFrom", left>>)
      [] rel = "DescendantOf" -> Some(<<right, "AncestorOf", left>>)
      [] OTHER -> Some(<<left, rel, right>>)

\* SpdxRelationship::try_from((left, rel, right)): the internal relationship,
\* or nothing for a kind without one
SpdxRelationship(left, rel, right) ==
    CASE rel = "Contains" -> Some(<<right, "ContainedBy", left>>)
      [] rel = "ContainedBy" -> Some(<<left, "ContainedBy", right>>)
      [] rel = "Describes" -> Some(<<right, "DescribedBy", left>>)
      [] rel = "DescribedBy" -> Some(<<left, "DescribedBy", right>>)
      [] rel = "DependsOn" -> Some(<<right, "DependencyOf", left>>)
      [] rel = "DependencyOf" -> Some(<<left, "DependencyOf", right>>)
      [] rel = "DevDependencyOf" -> Some(<<left, "DevDependencyOf", right>>)
      [] rel = "OptionalDependencyOf" ->
            Some(<<left, "OptionalDependencyOf", right>>)
      [] rel = "ProvidedDependencyOf" ->
            Some(<<left, "ProvidedDependencyOf", right>>)
      [] rel = "TestDependencyOf" -> Some(<<left, "TestDependencyOf", right>>)
      [] rel = "RuntimeDependencyOf" ->
            Some(<<left, "RuntimeDependencyOf", right>>)
      [] rel = "ExampleOf" -> Some(<<left, "ExampleOf", right>>)
      [] rel = "Generates" -> Some(<<right, "GeneratedFrom", left>>)
      [] rel = "GeneratedFrom" -> Some(<<left, "GeneratedFrom", right>>)
      [] rel = "AncestorOf" -> Some(<<left, "AncestorOf", right>>)
      [] rel = "DescendantOf" -> Some(<<right, "AncestorOf", left>>)
      [] rel = "VariantOf" -> Some(<<left, "VariantOf", right>>)
      [] rel = "BuildToolOf" -> Some(<<left, "BuildToolOf", right>>)
      [] rel = "DevToolOf" -> Some(<<left, "DevToolOf", right>>)
      [] OTHER -> None

\* SpdxRelationship::try_from(&spdx_rs::models::Relationship)
SpdxRelationshipOf(value) ==
    SpdxRelationship(value.spdx_element_id, value.relationship_type,
                     value.related_spdx_element)

\* RelationshipCreator::relate: one more tuple of the SBOM
relate(relationships, left, rel, right) ==
    relationships \cup {<<left, rel, right>>}

\* a loop over document_describes that records the products and relates
\* nothing
RECURSIVE DescribesLoopRelatesNothing(_, _, _)
DescribesLoopRelatesNothing(doc, i, acc) ==
    IF i > Len(doc.document_describes) THEN acc
    ELSE DescribesLoopRelatesNothing(doc, i + 1,
            [relationships |-> acc.relationships,
             product_packages |->
                Append(acc.product_packages, doc.spdx_identifier)])

\* the loop over document_describes, from the i-th entry on; acc holds the
\* relationships and product_packages so far
RECURSIVE DescribesLoop(_, _, _)
DescribesLoop(doc, i, acc) ==
    IF i > Len(doc.document_describes) THEN acc
    ELSE DescribesLoop(doc, i + 1,
            [relationships |->
                relate(acc.relationships, doc.document_describes[i],
                       "DescribedBy", doc.spdx_identifier),
             product_packages |->
                Append(acc.product_packages, doc.spdx_identifier)])

\* the loop over the relationships of the document, from the i-th on
RECURSIVE RelationshipsLoop(_, _, _)
RelationshipsLoop(doc, i, acc) ==
    IF i > Len(doc.relationships) THEN acc
    ELSE LET r == SpdxRelationshipOf(doc.relationships[i])
         IN  IF r = None
             THEN RelationshipsLoop(doc, i + 1, acc)
             ELSE RelationshipsLoop(doc, i + 1,
                    [relationships |->
                        relate(acc.relationships, r[1][1], r[1][2], r[1][3]),
                     product_packages |->
                        IF r[1][2] = "DescribedBy"
                        THEN Append(acc.product_packages, r[1][1])
                        ELSE acc.product_packages])

\* the locators Purl::from_str and Cpe::from_str accept
ParsablePurls == {"pkg:rpm/redhat/a@1.0"}
ParsableCpes == {"cpe:/a:redhat:b:2.0"}

\* Purl::from_str and Cpe::from_str
PurlFromStr(s) == IF s \in ParsablePurls THEN Ok(s) ELSE Err("PurlErr")
CpeFromStr(s) == IF s \in ParsableCpes THEN Ok(s) ELSE Err("CpeError")

\* Purl::qualifier_uuid and Cpe::uuid: the identifier derived from the value
qualifier_uuid(purl) == "uuid5(" \o purl \o ")"
cpe_uuid(cpe) == "uuid5(" \o cpe \o ")"

\* the loop over the external references of a package, from the i-th on; acc
\* holds refs and the purl and cpe creators
RECURSIVE ReferencesLoop(_, _, _)
ReferencesLoop(package, i, acc) ==
    IF i > Len(package.external_reference) THEN acc
    ELSE LET r == package.external_reference[i]
             purl == PurlFromStr(r.reference_locator)
             cpe == CpeFromStr(r.reference_locator)
         IN  ReferencesLoop(package, i + 1,
                CASE r.reference_type = "purl" /\ purl.kind = "Ok" ->
                        [acc EXCEPT
                            !.refs = Append(@, [kind |-> "Purl",
                                id |-> qualifier_uuid(purl.value)]),
                            !.purls = @ \cup {purl.value}]
                  [] r.reference_type = "cpe22Type" /\ cpe.kind = "Ok" ->
                        [acc EXCEPT
                            !.refs = Append(@, [kind |-> "Cpe",
                                id |-> cpe_uuid(cpe.value)]),
                            !.cpes = @ \cup {cpe.value}]
                  [] OTHER -> acc)

\* PackageCreator::add and FileCreator::add
PackageNode(package, refs) ==
    [node_id |-> package.package_spdx_identifier,
     name |-> package.package_name, version |-> package.package_version,
     refs |-> refs]
FileNode(file) ==
    [node_id |-> file.file_spdx_identifier, name |-> file.file_name]

\* product_packages.contains(id)
Contains(product_packages, id) ==
    \E i \in DOMAIN product_packages : product_packages[i] = id

SourcesWithoutFiles(doc, c) ==
    {doc.spdx_identifier} \cup {n.node_id : n \in c.packages}

\* the node ids of the three sources: the document id, the packages and the
\* files
Sources(doc, c) ==
    {doc.spdx_identifier} \cup {n.node_id : n \in c.packages}
        \cup {n.node_id : n \in c.files}

\* RelationshipCreator::validate: every left and right node id is in a source
validate(relationships, sources) ==
    IF \A r \in relationships : r[1] \in sources /\ r[3] \in sources
    THEN Ok(None)
    ELSE Err("InvalidReference")

\* the tables of the graph, with no row of the document yet
NoRows ==
    [purls |-> {}, cpes |-> {}, packages |-> {}, files |-> {},
     relationships |-> {}, products |-> {}, product_versions |-> {}]

\* self.sbom.sbom_id
SbomId == "sbom"

\* the package the package loop is at
Package == sbom_data.package_information[idx]

\* ingest_spdx up to the package loop: the pre-flight checks, which may report
\* to the sink, the creators, and the loops over document_describes and the
\* relationships
Prepare ==
    /\ at = "start"
    /\ \E checks \in {<<>>, <<"check">>} : sink' = sink \o checks
    /\ LET acc == RelationshipsLoop(sbom_data, 1,
                    DescribesLoop(sbom_data, 1,
                        [relationships |-> {}, product_packages |-> <<>>]))
       IN  creators' =
                [purls |-> {}, cpes |-> {}, packages |-> {}, files |-> {},
                 relationships |-> acc.relationships,
                 product_packages |-> acc.product_packages]
    /\ at' = "package"
    /\ idx' = 1
    /\ UNCHANGED <<sbom_data, json, graph, flushed, changed, outcome,
                   outsideSpdx>>

\* one round of the package loop up to its first await: the references are
\* parsed and the package is added
AddPackage ==
    /\ at = "package"
    /\ idx <= Len(sbom_data.package_information)
    /\ LET acc == ReferencesLoop(Package, 1,
                    [refs |-> <<>>, purls |-> creators.purls,
                     cpes |-> creators.cpes])
       IN  creators' =
                [creators EXCEPT
                    !.purls = acc.purls, !.cpes = acc.cpes,
                    !.packages = @ \cup {PackageNode(Package, acc.refs)}]
    /\ IF Contains(creators.product_packages, Package.package_spdx_identifier)
       THEN at' = "ingest_product" /\ idx' = idx
       ELSE at' = at /\ idx' = idx + 1
    /\ UNCHANGED <<sbom_data, json, graph, flushed, sink, changed, outcome,
                   outsideSpdx>>

\* graph.ingest_product(name, {vendor}, tx)
IngestProduct ==
    /\ at = "ingest_product"
    /\ graph' = [graph EXCEPT !.products =
            @ \cup {[name |-> Package.package_name,
                     vendor |-> Package.package_supplier]}]
    /\ IF Package.package_version # None
       THEN at' = "ingest_product_version" /\ idx' = idx
       ELSE at' = "package" /\ idx' = idx + 1
    /\ UNCHANGED <<sbom_data, json, creators, flushed, sink, changed, outcome,
                   outsideSpdx>>

\* pr.ingest_product_version(ver, Some(sbom_id), tx)
IngestProductVersion ==
    /\ at = "ingest_product_version"
    /\ graph' = [graph EXCEPT !.product_versions =
            @ \cup {[product |-> Package.package_name,
                     version |-> Package.package_version[1],
                     sbom_id |-> Some(SbomId)]}]
    /\ at' = "package"
    /\ idx' = idx + 1
    /\ UNCHANGED <<sbom_data, json, creators, flushed, sink, changed, outcome,
                   outsideSpdx>>

\* the loop over the files, and the database connection is taken
AddFiles ==
    /\ at = "package"
    /\ idx > Len(sbom_data.package_information)
    /\ creators' = [creators EXCEPT !.files =
            {FileNode(sbom_data.file_information[i]) :
                i \in DOMAIN sbom_data.file_information}]
    /\ at' = "purls"
    /\ UNCHANGED <<sbom_data, json, idx, graph, flushed, sink, changed,
                   outcome, outsideSpdx>>

\* creator.create(&db) of the creator the ingest is at succeeds: its rows are
\* written and the next statement is next
Create_(creator, next) ==
    /\ at = creator
    /\ graph' = [graph EXCEPT ![creator] = @ \cup creators[creator]]
    /\ flushed' = Append(flushed, creator)
    /\ at' = next
    /\ UNCHANGED <<sbom_data, json, idx, creators, sink, changed, outcome,
                   outsideSpdx>>

CreatePurls == Create_("purls", "cpes")
CreateCpes == Create_("cpes", "validate")

ValidateSkipped ==
    /\ at = "validate"
    /\ at' = "packages"
    /\ UNCHANGED <<sbom_data, json, idx, creators, graph, flushed, sink,
                   changed, outcome, outsideSpdx>>

\* relationships.validate(sources).map_err(Error::Generic)?
Validate ==
    /\ at = "validate"
    /\ IF validate(creators.relationships, Sources(sbom_data, creators)).kind
            = "Ok"
       THEN at' = "packages" /\ outcome' = outcome
       ELSE at' = "done" /\ outcome' = Some(Err("Generic"))
    /\ UNCHANGED <<sbom_data, json, idx, creators, graph, flushed, sink,
                   changed, outsideSpdx>>

CreatePackagesThenRelationships == Create_("packages", "relationships")

CreatePackages == Create_("packages", "files")
CreateFiles == Create_("files", "relationships")

\* relationships.create(&db) succeeds and ingest_spdx returns Ok(())
CreateRelationships ==
    /\ at = "relationships"
    /\ graph' = [graph EXCEPT !.relationships = @ \cup creators.relationships]
    /\ flushed' = Append(flushed, "relationships")
    /\ at' = "done"
    /\ outcome' = Some(Ok(None))
    /\ UNCHANGED <<sbom_data, json, idx, creators, sink, changed,
                   outsideSpdx>>

\* the statements of ingest_spdx that await the database
Awaits ==
    {"ingest_product", "ingest_product_version", "purls", "cpes", "packages",
     "files", "relationships"}

\* the statement the ingest is at fails with a database error: `?` returns it
IngestFail ==
    /\ at \in Awaits
    /\ at' = "done"
    /\ outcome' = Some(Err("Database"))
    /\ UNCHANGED <<sbom_data, json, idx, creators, graph, flushed, sink,
                   changed, outsideSpdx>>

\* the importer service is not in use
NoService ==
    /\ importers = Empty
    /\ reports = {}
    /\ uuids = 0
    /\ clock = 0
    /\ everRev = Empty
    /\ gone = Empty
    /\ finished = Empty
    /\ InitCallers({})

DocId == "SPDXRef-DOCUMENT"
NodeIds == {DocId, "SPDXRef-A", "SPDXRef-B", "SPDXRef-F", "SPDXRef-X"}

Reference(type, locator) ==
    [reference_type |-> type, reference_locator |-> locator]

\* a versioned package of a supplier, with a purl and a CPE that does not
\* parse
PackageA ==
    [package_spdx_identifier |-> "SPDXRef-A", package_name |-> "a",
     package_version |-> Some("1.0"), package_supplier |-> Some("Red Hat"),
     external_reference |->
        <<Reference("purl", "pkg:rpm/redhat/a@1.0"),
          Reference("cpe22Type", "cpe:bad")>>]

\* a package without version and supplier, with a purl that does not parse,
\* a CPE and a reference of another type
PackageB ==
    [package_spdx_identifier |-> "SPDXRef-B", package_name |-> "b",
     package_version |-> None, package_supplier |-> None,
     external_reference |->
        <<Reference("purl", "not a purl"),
          Reference("cpe22Type", "cpe:/a:redhat:b:2.0"),
          Reference("website", "https://example.com/b")>>]

FileF == [file_spdx_identifier |-> "SPDXRef-F", file_name |-> "f.txt"]

Rel(left, type, right) ==
    [spdx_element_id |-> left, relationship_type |-> type,
     related_spdx_element |-> right]

\* relationships among the document, its packages and its file, one of a
\* kind without internal name and one to a node the document does not have
RelCatalogue ==
    {Rel(DocId, "Describes", "SPDXRef-A"),
     Rel("SPDXRef-B", "DescribedBy", DocId),
     Rel("SPDXRef-A", "Contains", "SPDXRef-B"),
     Rel("SPDXRef-F", "ContainedBy", "SPDXRef-A"),
     Rel("SPDXRef-A", "Other", "SPDXRef-X"),
     Rel("SPDXRef-A", "DependsOn", "SPDXRef-X")}

SeqsUpTo(S, n) == UNION {[1 .. k -> S] : k \in 0 .. n}

Document(describes, relationships, packages, files) ==
    [spdx_identifier |-> DocId, document_describes |-> describes,
     relationships |-> relationships, package_information |-> packages,
     file_information |-> files]

\* the documents ingested: up to MaxRels relationships of the catalogue with
\* any of the packages and the file, or one relationship of any kind between
\* any two node ids
Documents ==
    {Document(d, r, p, f) :
        d \in {<<>>, <<"SPDXRef-A">>, <<"SPDXRef-B">>},
        r \in SeqsUpTo(RelCatalogue, MaxRels),
        p \in {<<>>, <<PackageA>>, <<PackageB>>, <<PackageA, PackageB>>},
        f \in {<<>>, <<FileF>>}}
    \cup
    {Document(<<>>, <<Rel(l, k, r)>>, <<PackageA, PackageB>>, <<FileF>>) :
        l \in NodeIds, k \in RelationshipType, r \in NodeIds}

InitSpdx ==
    /\ NoService
    /\ NoLoad
    /\ NoPurl
    /\ NoRun
    /\ sbom_data \in Documents
    /\ json = None
    /\ at = "start"
    /\ idx = 0
    /\ creators = None
    /\ graph = NoRows
    /\ flushed = <<>>
    /\ sink = <<>>
    /\ changed = FALSE
    /\ outcome = None

NextSpdx ==
    \/ Prepare
    \/ AddPackage
    \/ IngestProduct
    \/ IngestProductVersion
    \/ AddFiles
    \/ CreatePurls
    \/ CreateCpes
    \/ Validate
    \/ CreatePackages
    \/ CreateFiles
    \/ CreateRelationships
    \/ IngestFail

\* one ingest_spdx call on one document, in a transaction of its own
SpecSpdx == InitSpdx /\ [][NextSpdx]_vars

\* ------------------------------------------------------------------ licenses

\* serde_json::Value: null, a string, a number, an array, and an object as
\* the record of its members, in which None stands for a member the object
\* does not have
JNull == [null |-> TRUE]
JString(x) == [string |-> x]
JNumber(x) == [number |-> x]
JArray(items) == [array |-> items]

\* the object of a document, with the members spdxVersion and packages
JDocument(version, packages) ==
    [spdxVersion |-> version, packages |-> packages]

\* Value::as_str
as_str(v) == IF DOMAIN v = {"string"} THEN Some(v.string) ELSE None

\* Value::as_array_mut
as_array_mut(v) == IF DOMAIN v = {"array"} THEN Some(v.array) ELSE None

\* IndexMut<&str> for Value takes null and objects; on any other value it
\* panics
CanIndexMut(v) == v = JNull \/ DOMAIN v = {"spdxVersion", "packages"}

\* json["packages"] as a mutable place, IndexMut<&str> for Value: null is
\* turned into an empty object, and a member the object does not have is
\* inserted as null; the document after the access
index_mut(v) ==
    IF v = JNull THEN JDocument(None, JNull)
    ELSE IF v.packages = None THEN [v EXCEPT !.packages = JNull]
    ELSE v

\* the license expressions spdx_expression::SpdxExpression::parse accepts
ValidExpressions == {"MIT", "NOASSERTION", "Apache-2.0 OR MIT"}

\* SpdxExpression::parse(declared)
parse(declared) ==
    IF declared \in ValidExpressions THEN Ok(declared)
    ELSE Err("invalid expression: " \o declared)

\* the message fix_license reports for a parse error
Replacing(err) ==
    "Replacing faulty SPDX license expression with NOASSERTION: " \o err

fix_packageKeepsChanged(package, flag, messages) ==
    LET declared == as_str(package.licenseDeclared)
    IN  IF declared # None /\ parse(declared[1]).kind # "Ok"
        THEN [package |->
                [package EXCEPT !.licenseDeclared = JString("NOASSERTION")],
              changed |-> flag,
              sink |-> Append(messages, Replacing(parse(declared[1]).kind))]
        ELSE [package |-> package, changed |-> flag, sink |-> messages]

\* one round of the loop of fix_license over the packages: the package, the
\* changed flag and the sink after it
fix_package(package, flag, messages) ==
    LET declared == as_str(package.licenseDeclared)
    IN  IF declared # None /\ parse(declared[1]).kind # "Ok"
        THEN [package |->
                [package EXCEPT !.licenseDeclared = JString("NOASSERTION")],
              changed |-> TRUE,
              sink |-> Append(messages, Replacing(parse(declared[1]).kind))]
        ELSE [package |-> package, changed |-> flag, sink |-> messages]

\* the loop of fix_license over the packages, from the i-th on
RECURSIVE fix_packages(_, _, _, _)
fix_packages(packages, i, flag, messages) ==
    IF i > Len(packages)
    THEN [packages |-> packages, changed |-> flag, sink |-> messages]
    ELSE LET fixed == fix_package(packages[i], flag, messages)
         IN  fix_packages([packages EXCEPT ![i] = fixed.package], i + 1,
                          fixed.changed, fixed.sink)

\* fix_license(report, json) as a whole: the document and the flag it
\* returns and the sink after it, or the panic of the index access
fix_license(report, document) ==
    IF ~CanIndexMut(document)
    THEN [panic |-> TRUE, json |-> document, changed |-> FALSE,
          sink |-> report]
    ELSE LET indexed == index_mut(document)
             packages == as_array_mut(indexed.packages)
         IN  IF packages = None
             THEN [panic |-> FALSE, json |-> indexed, changed |-> FALSE,
                   sink |-> report]
             ELSE LET fixed == fix_packages(packages[1], 1, FALSE, report)
                  IN  [panic |-> FALSE,
                       json |-> [indexed EXCEPT
                                    !.packages = JArray(fixed.packages)],
                       changed |-> fixed.changed, sink |-> fixed.sink]

\* fix_license: json["packages"] is reached as a mutable place
IndexPackages ==
    /\ at = "index"
    /\ IF CanIndexMut(json)
       THEN json' = index_mut(json) /\ at' = "fix_license"
       ELSE json' = json /\ at' = "panic"
    /\ UNCHANGED <<sbom_data, idx, creators, graph, flushed, sink, changed,
                   outcome, outsideSpdx>>

\* fix_license: one round of the loop over json["packages"]
FixPackage ==
    /\ at = "fix_license"
    /\ as_array_mut(json.packages) # None
    /\ idx <= Len(json.packages.array)
    /\ LET fixed == fix_package(json.packages.array[idx], changed, sink)
       IN  /\ json' = [json EXCEPT !.packages.array[idx] = fixed.package]
           /\ changed' = fixed.changed
           /\ sink' = fixed.sink
    /\ idx' = idx + 1
    /\ UNCHANGED <<sbom_data, at, creators, graph, flushed, outcome,
                   outsideSpdx>>

\* fix_license returns (json, changed)
FixReturn ==
    /\ at = "fix_license"
    /\ IF as_array_mut(json.packages) = None THEN TRUE
       ELSE idx > Len(json.packages.array)
    /\ at' = "done"
    /\ outcome' = Some(<<json, changed>>)
    /\ UNCHANGED <<sbom_data, json, idx, creators, graph, flushed, sink,
                   changed, outsideSpdx>>

\* the values of licenseDeclared: missing, not a string, an expression that
\* parses, NOASSERTION, an expression that does not parse
Licenses ==
    {None, JNumber(1), JString("MIT"), JString("NOASSERTION"),
     JString("GPL-2.0+ WITH broken")}

\* the arrays of up to MaxPackages packages
PackageArrays ==
    {[i \in 1 .. k |-> [name |-> "a", licenseDeclared |-> l[i]]] :
        k \in 0 .. MaxPackages, l \in [1 .. MaxPackages -> Licenses]}

\* the JSON documents repaired: null, a string, and objects whose packages
\* member is missing, null, a string or an array of packages
JsonDocuments ==
    {JNull, JString("text")}
        \cup {JDocument(JString("SPDX-2.3"), p) :
                p \in {None, JNull, JString("none")}}
        \cup {JDocument(JString("SPDX-2.3"), JArray(p)) : p \in PackageArrays}

InitLicense ==
    /\ NoService
    /\ NoLoad
    /\ NoPurl
    /\ NoRun
    /\ json \in JsonDocuments
    /\ sbom_data = None
    /\ at = "index"
    /\ idx = 1
    /\ creators = None
    /\ graph = None
    /\ flushed = <<>>
    /\ sink = <<>>
    /\ changed = FALSE
    /\ outcome = None

NextLicense == IndexPackages \/ FixPackage \/ FixReturn

\* one fix_license call on one JSON document
SpecLicense == InitLicense /\ [][NextLicense]_vars

\* ------------------------------------------------------------------ cve

\* the CVE loaders of a run
Loaders == {"l1", "l2"}

\* Timestamp::assume_utc: the naive timestamp, taken at offset zero
assume_utc(t) == [instant |-> t, offset |-> 0]

\* a description of a CVE record
Description(language, value) == [language |-> language, value |-> value]

\* a problem type of a CVE record from the cwe_id of each of its descriptions
ProblemType(cwe_ids) ==
    [descriptions |-> [i \in 1..Len(cwe_ids) |-> [cwe_id |-> cwe_ids[i]]]]

\* Cve::Published and Cve::Rejected, with the fields load() reads
Published(id, title, date_assigned, descriptions, problem_types, date_published, date_updated) ==
    [state |-> "PUBLISHED", id |-> id, title |-> title,
     date_assigned |-> date_assigned, descriptions |-> descriptions,
     problem_types |-> problem_types, date_published |-> date_published,
     date_updated |-> date_updated, date_rejected |-> None,
     rejected_reasons |-> <<>>]

Rejected(id, date_rejected, rejected_reasons, date_published, date_updated) ==
    [state |-> "REJECTED", id |-> id, title |-> None,
     date_assigned |-> None, descriptions |-> <<>>,
     problem_types |-> <<>>, date_published |-> date_published,
     date_updated |-> date_updated, date_rejected |-> date_rejected,
     rejected_reasons |-> rejected_reasons]

\* the records the loaders are given: published with and without a title, an
\* English description and a CWE, rejected with and without a date
CveRecords ==
    { Published("CVE-1", Some("T"), Some(1),
                <<Description("en", "d1"), Description("es", "d2")>>,
                <<ProblemType(<<None, Some("CWE-79")>>),
                  ProblemType(<<Some("CWE-89")>>)>>,
                Some(2), Some(3)),
      Published("CVE-1", None, None, <<Description("es", "d3")>>, <<>>,
                None, None),
      Published("CVE-1", Some("U"), None,
                <<Description("en", "d1"), Description("en", "d4")>>,
                <<ProblemType(<<None>>)>>, Some(2), None),
      Rejected("CVE-1", Some(4), <<Description("en", "r1")>>, Some(2),
               Some(4)),
      Rejected("CVE-2", None, <<>>, None, None) }

\* bytes that are not a CVE record
NotACve ==
    [Rejected("", None, <<>>, None, None) EXCEPT !.state = "not a CVE record"]

\* the bytes a loader is given: a CVE record, or something that is not one
Bytes == CveRecords \cup {NotACve}

\* serde_json::from_reader::<Cve>
from_reader(record) ==
    IF record \in CveRecords THEN Ok(record) ELSE Err("Json")

\* Digests::digest(data).sha256: equal exactly for equal bytes
sha256(data) == <<"sha256", data>>

\* problem_types.iter().flat_map(|pt| pt.descriptions.iter())
RECURSIVE flat_map(_)
flat_map(problem_types) ==
    IF problem_types = <<>> THEN <<>>
    ELSE Head(problem_types).descriptions \o flat_map(Tail(problem_types))

\* .find_map(|d| d.cwe_id.clone()), taking the last present cwe_id instead
RECURSIVE find_mapLast(_)
find_mapLast(ds) ==
    IF ds = <<>> THEN None
    ELSE IF ds[Len(ds)].cwe_id # None THEN ds[Len(ds)].cwe_id
    ELSE find_mapLast(SubSeq(ds, 1, Len(ds) - 1))

\* .find_map(|d| d.cwe_id.clone()): the first cwe_id that is present
RECURSIVE find_map(_)
find_map(ds) ==
    IF ds = <<>> THEN None
    ELSE IF Head(ds).cwe_id # None THEN Head(ds).cwe_id
    ELSE find_map(Tail(ds))

\* Option::map(Timestamp::assume_utc)
MapUtc(t) == IF t = None THEN None ELSE Some(assume_utc(t[1]))

\* the match, with the published arm taking withdrawn from date_updated
SelectWithdrawn(cve) ==
    IF cve.state = "REJECTED"
    THEN [title |-> None, assigned |-> None,
          withdrawn |-> MapUtc(cve.date_rejected),
          descriptions |-> cve.rejected_reasons, cwe |-> None]
    ELSE [title |-> cve.title, assigned |-> MapUtc(cve.date_assigned),
          withdrawn |-> MapUtc(cve.date_updated),
          descriptions |-> cve.descriptions,
          cwe |-> find_map(flat_map(cve.problem_types))]

\* (title, assigned, withdrawn, descriptions, cwe) = match &cve { ... }
Select(cve) ==
    IF cve.state = "REJECTED"
    THEN [title |-> None, assigned |-> None,
          withdrawn |-> MapUtc(cve.date_rejected),
          descriptions |-> cve.rejected_reasons, cwe |-> None]
    ELSE [title |-> cve.title, assigned |-> MapUtc(cve.date_assigned),
          withdrawn |-> None, descriptions |-> cve.descriptions,
          cwe |-> find_map(flat_map(cve.problem_types))]

\* VulnerabilityInformation { title, published, modified, withdrawn, cwe }
VulnerabilityInformation(cve) ==
    [title |-> Select(cve).title,
     published |-> MapUtc(cve.date_published),
     modified |-> MapUtc(cve.date_updated),
     withdrawn |-> Select(cve).withdrawn,
     cwe |-> Select(cve).cwe]

\* AdvisoryInformation { title, issuer, published, modified, withdrawn }; the
\* issuer is the literal of the source without its registered sign
AdvisoryInformation(cve) ==
    [title |-> Select(cve).title,
     issuer |-> Some("CVE (MITRE Corporation"),
     published |-> MapUtc(cve.date_published),
     modified |-> MapUtc(cve.date_updated),
     withdrawn |-> Select(cve).withdrawn]

\* AdvisoryVulnerabilityInformation { title, summary, description,
\* discovery_date, release_date, cwe }
AdvisoryVulnerabilityInformation(cve, english_description) ==
    [title |-> Select(cve).title, summary |-> None,
     description |-> english_description,
     discovery_date |-> Select(cve).assigned,
     release_date |-> MapUtc(cve.date_published),
     cwe |-> Select(cve).cwe]

\* the rows of a store or of a transaction: nothing written
NoBase == [vulnerabilities |-> Empty, advisories |-> Empty, links |-> Empty]

\* f with the entries of g written over it
Overlay(f, g) ==
    [k \in DOMAIN f \cup DOMAIN g |-> IF k \in DOMAIN g THEN g[k] ELSE f[k]]

\* a load that has not been called
NoLoader ==
    [pc |-> "idle", record |-> None, cve |-> None, tx |-> None, i |-> 0,
     english_description |-> None, advisory |-> None, result |-> None]

\* the rows loader q reads: the committed rows under its own writes
View(q) ==
    IF loads[q].tx = None THEN base
    ELSE [vulnerabilities |->
              Overlay(base.vulnerabilities, loads[q].tx[1].vulnerabilities),
          advisories |-> Overlay(base.advisories, loads[q].tx[1].advisories),
          links |-> Overlay(base.links, loads[q].tx[1].links)]

\* another open transaction holds an uncommitted write of the row: the write
\* of q waits for it to end
Held(q, table, key) ==
    \E o \in Loaders \ {q} :
        /\ loads[o].tx # None
        /\ key \in DOMAIN loads[o].tx[1][table]

\* a field of an upsert: a null never replaces a value, a value fills a null;
\* of two values the policy says which stays
Coalesce(old, new, policy) ==
    IF new = None THEN old
    ELSE IF old = None THEN new
    ELSE IF policy = "overwrite" THEN new ELSE old

\* Graph::ingest_vulnerability: upsert by identifier
ingest_vulnerability(rows, id, information, policy) ==
    IF id \in DOMAIN rows
    THEN [rows EXCEPT
              ![id] = [title |-> Coalesce(@.title, information.title, policy),
                       published |->
                           Coalesce(@.published, information.published,
                                    policy),
                       modified |->
                           Coalesce(@.modified, information.modified, policy),
                       withdrawn |->
                           Coalesce(@.withdrawn, information.withdrawn,
                                    policy),
                       cwe |-> Coalesce(@.cwe, information.cwe, policy),
                       descriptions |-> @.descriptions]]
    ELSE Overlay(rows,
                 [k \in {id} |->
                     [title |-> information.title,
                      published |-> information.published,
                      modified |-> information.modified,
                      withdrawn |-> information.withdrawn,
                      cwe |-> information.cwe,
                      descriptions |-> Empty]])

\* VulnerabilityContext::add_description: the description of the language
add_description(row, language, value) ==
    [row EXCEPT !.descriptions = Overlay(@, [k \in {language} |-> value])]

\* Graph::ingest_advisory: upsert by sha256; the row found, or a new row that
\* carries the id given
ingest_advisory(rows, identifier, labels, digest, information, id) ==
    IF digest \in DOMAIN rows THEN rows
    ELSE Overlay(rows,
                 [k \in {digest} |->
                     [id |-> id, identifier |-> identifier,
                      labels |-> labels, sha256 |-> digest,
                      title |-> information.title,
                      issuer |-> information.issuer,
                      published |-> information.published,
                      modified |-> information.modified,
                      withdrawn |-> information.withdrawn]])

\* AdvisoryContext::link_to_vulnerability: one edge per advisory and
\* vulnerability; the information given replaces the information of the edge
link_to_vulnerability(rows, advisory, identifier, information) ==
    Overlay(rows, [k \in {<<advisory, identifier>>} |-> information])

\* the labels the loaders are called with
Labels == [type |-> "file"]

outsideCve == <<importerVars, spdxVars, purlVars, runVars>>

\* the transaction of q with the row written under the key of the table
Written(q, table, key, row) ==
    Some([loads[q].tx[1] EXCEPT ![table] = Overlay(@, [k \in {key} |-> row])])

\* load(labels, record, digests) up to the first statement: the record is
\* parsed and the transaction begun
Load(q) ==
    /\ loads[q].pc = "idle"
    /\ \E record \in Bytes, begun \in BOOLEAN :
           LET cve == from_reader(record)
           IN  loads' =
                   [loads EXCEPT
                       ![q] =
                           IF cve.kind # "Ok"
                           THEN [@ EXCEPT !.pc = "done",
                                          !.record = Some(record),
                                          !.result = Some(Err("Json"))]
                           ELSE IF ~begun
                           THEN [@ EXCEPT !.pc = "done",
                                          !.record = Some(record),
                                          !.cve = Some(cve.value),
                                          !.result = Some(Err("Database"))]
                           ELSE [@ EXCEPT !.pc = "ingest_vulnerability",
                                          !.record = Some(record),
                                          !.cve = Some(cve.value),
                                          !.tx = Some(NoBase)]]
    /\ UNCHANGED <<base, ids, outsideCve>>

\* self.graph.ingest_vulnerability(id, information, &tx)
IngestVulnerability(q) ==
    /\ loads[q].pc = "ingest_vulnerability"
    /\ LET cve == loads[q].cve[1]
       IN  /\ ~Held(q, "vulnerabilities", cve.id)
           /\ \E policy \in {"overwrite", "keep"} :
                  LET rows == ingest_vulnerability(View(q).vulnerabilities,
                                                   cve.id,
                                                   VulnerabilityInformation(cve),
                                                   policy)
                  IN  loads' =
                          [loads EXCEPT
                              ![q] =
                                  [@ EXCEPT
                                      !.tx = Written(q, "vulnerabilities",
                                                     cve.id, rows[cve.id]),
                                      !.i = 1,
                                      !.pc =
                                          IF Select(cve).descriptions = <<>>
                                          THEN "ingest_advisory"
                                          ELSE "add_description"]]
    /\ UNCHANGED <<base, ids, outsideCve>>

\* one turn of the loop over the descriptions
AddDescription(q) ==
    /\ loads[q].pc = "add_description"
    /\ LET cve == loads[q].cve[1]
           descriptions == Select(cve).descriptions
           description == descriptions[loads[q].i]
           row == View(q).vulnerabilities[cve.id]
       IN  loads' =
               [loads EXCEPT
                   ![q] =
                       [@ EXCEPT
                           !.tx = Written(q, "vulnerabilities", cve.id,
                                          add_description(
                                              row, description.language,
                                              description.value)),
                           !.english_description =
                               IF description.language = "en"
                               THEN Some(description.value)
                               ELSE @,
                           !.i = @ + 1,
                           !.pc = IF loads[q].i = Len(descriptions)
                                  THEN "ingest_advisory"
                                  ELSE "add_description"]]
    /\ UNCHANGED <<base, ids, outsideCve>>

\* ingest_advisory that inserts a row whether or not the digest is known
IngestAdvisoryFresh(q) ==
    /\ loads[q].pc = "ingest_advisory"
    /\ LET cve == loads[q].cve[1]
           digest == sha256(loads[q].record[1])
           rows == ingest_advisory(Empty, cve.id, Labels, digest,
                                   AdvisoryInformation(cve), ids + 1)
       IN  /\ ~Held(q, "advisories", digest)
           /\ loads' =
                  [loads EXCEPT
                      ![q] = [@ EXCEPT !.tx = Written(q, "advisories", digest,
                                                      rows[digest]),
                                       !.advisory = Some(ids + 1),
                                       !.pc = "link"]]
           /\ ids' = ids + 1
    /\ UNCHANGED <<base, outsideCve>>

\* self.graph.ingest_advisory(id, labels, digests, information, &tx)
IngestAdvisory(q) ==
    /\ loads[q].pc = "ingest_advisory"
    /\ LET cve == loads[q].cve[1]
           digest == sha256(loads[q].record[1])
           found == digest \in DOMAIN View(q).advisories
           rows == ingest_advisory(View(q).advisories, cve.id, Labels, digest,
                                   AdvisoryInformation(cve), ids + 1)
       IN  /\ ~Held(q, "advisories", digest)
           /\ loads' =
                  [loads EXCEPT
                      ![q] = [@ EXCEPT
                                 !.tx = IF found THEN @
                                        ELSE Written(q, "advisories", digest,
                                                     rows[digest]),
                                 !.advisory = Some(rows[digest].id),
                                 !.pc = "link"]]
           /\ ids' = IF found THEN ids ELSE ids + 1
    /\ UNCHANGED <<base, outsideCve>>

\* advisory.link_to_vulnerability(id, Some(information), &tx)
Link(q) ==
    /\ loads[q].pc = "link"
    /\ LET cve == loads[q].cve[1]
           key == <<loads[q].advisory[1], cve.id>>
           rows == link_to_vulnerability(
                       View(q).links, loads[q].advisory[1], cve.id,
                       AdvisoryVulnerabilityInformation(
                           cve, loads[q].english_description))
       IN  /\ ~Held(q, "links", key)
           /\ loads' =
                  [loads EXCEPT
                      ![q] = [@ EXCEPT !.tx = Written(q, "links", key,
                                                      rows[key]),
                                       !.pc = "commit"]]
    /\ UNCHANGED <<base, ids, outsideCve>>

\* IngestResult { id: Id::Uuid(advisory.advisory.id), document_id }
IngestResult(advisory, id) ==
    [id |-> <<"Uuid", advisory>>, document_id |-> id]

\* tx.commit() and the return of the result
Commit(q) ==
    /\ loads[q].pc = "commit"
    /\ base' = View(q)
    /\ loads' =
           [loads EXCEPT
               ![q] = [@ EXCEPT
                          !.tx = None,
                          !.pc = "done",
                          !.result =
                              Some(Ok(IngestResult(loads[q].advisory[1],
                                                   loads[q].cve[1].id)))]]
    /\ UNCHANGED <<ids, outsideCve>>

LoadFailPositions ==
    {"ingest_vulnerability", "add_description", "ingest_advisory", "link",
     "commit"}

\* a failing statement whose transaction is committed all the same
LoadFailCommits(q) ==
    /\ loads[q].pc \in LoadFailPositions
    /\ base' = View(q)
    /\ loads' = [loads EXCEPT ![q] = [@ EXCEPT !.tx = None, !.pc = "done",
                                               !.result =
                                                   Some(Err("Database"))]]
    /\ UNCHANGED <<ids, outsideCve>>

\* a statement of the load fails: `?` returns the error and the transaction
\* is dropped, which rolls it back
LoadFail(q) ==
    /\ loads[q].pc \in LoadFailPositions
    /\ loads' = [loads EXCEPT ![q] = [@ EXCEPT !.tx = None, !.pc = "done",
                                               !.result =
                                                   Some(Err("Database"))]]
    /\ UNCHANGED <<base, ids, outsideCve>>

InitCve ==
    /\ base = NoBase
    /\ loads = [q \in Loaders |-> NoLoader]
    /\ ids = 0
    /\ NoService
    /\ NoIngest
    /\ NoPurl
    /\ NoRun

NextCve ==
    \E q \in Loaders :
        \/ Load(q)
        \/ IngestVulnerability(q)
        \/ AddDescription(q)
        \/ IngestAdvisory(q)
        \/ Link(q)
        \/ Commit(q)
        \/ LoadFail(q)

\* two loaders, each loading one record into a store that starts empty
SpecCve == InitCve /\ [][NextCve]_vars

\* ------------------------------------------------------------------ purl

\* A text is the sequence of its pieces: every delimiter (: / @ ? = &) and
\* every percent escape is a piece of its own, and so is every run of other
\* characters. No text here has a '#', so no purl has a subpath.

\* str::to_lowercase of a piece
to_lowercase(piece) == IF piece = "NPM" THEN "npm" ELSE piece

\* percent decoding of a piece
decode(piece) ==
    IF piece = "%40" THEN "@" ELSE IF piece = "%2F" THEN "/" ELSE piece

Lowercase(s) == [i \in 1..Len(s) |-> to_lowercase(s[i])]
Decode(s) == [i \in 1..Len(s) |-> decode(s[i])]

\* the pieces that are neither a delimiter nor a percent escape
IsPlain(piece) ==
    piece \notin {":", "/", "@", "?", "=", "&", "%40", "%2F"}

\* quickfind and quickrfind: the first and the last position of a piece, or 0
quickfind(s, c) ==
    IF \E i \in 1..Len(s) : s[i] = c
    THEN CHOOSE i \in 1..Len(s) :
             s[i] = c /\ \A j \in 1..(i - 1) : s[j] # c
    ELSE 0

quickrfind(s, c) ==
    IF \E i \in 1..Len(s) : s[i] = c
    THEN CHOOSE i \in 1..Len(s) :
             s[i] = c /\ \A j \in (i + 1)..Len(s) : s[j] # c
    ELSE 0

\* &input[..i] and &input[i + 1..]
Upto(s, i) == SubSeq(s, 1, i - 1)
After(s, i) == SubSeq(s, i + 1, Len(s))

\* utils::cut and utils::rcut
cut(s, c) ==
    IF quickfind(s, c) = 0 THEN <<s, <<>>>>
    ELSE <<Upto(s, quickfind(s, c)), After(s, quickfind(s, c))>>

rcut(s, c) ==
    IF quickrfind(s, c) = 0 THEN <<<<>>, s>>
    ELSE <<Upto(s, quickrfind(s, c)), After(s, quickrfind(s, c))>>

\* str::trim_start_matches, str::trim_matches and str::split
RECURSIVE trim_start_matches(_, _)
trim_start_matches(s, c) ==
    IF s # <<>> /\ Head(s) = c THEN trim_start_matches(Tail(s), c) ELSE s

RECURSIVE trim_matches(_, _)
trim_matches(s, c) ==
    IF s # <<>> /\ s[Len(s)] = c
    THEN trim_matches(SubSeq(s, 1, Len(s) - 1), c)
    ELSE trim_start_matches(s, c)

RECURSIVE split(_, _)
split(s, c) ==
    IF quickfind(s, c) = 0 THEN <<s>>
    ELSE <<Upto(s, quickfind(s, c))>> \o split(After(s, quickfind(s, c)), c)

\* validation::is_type_valid, is_qualifier_key_valid and
\* is_namespace_component_valid
is_type_valid(ty) == ty # <<>> /\ \A i \in 1..Len(ty) : IsPlain(ty[i])
is_qualifier_key_valid(key) ==
    key # <<>> /\ \A i \in 1..Len(key) : IsPlain(key[i])
is_namespace_component_valid(component) ==
    component # <<>> /\ \A i \in 1..Len(component) : component[i] # "/"

\* parser::parse_scheme: "pkg:" and the slashes that follow it are taken off
parse_scheme(s) ==
    IF quickfind(s, ":") = 0 THEN Err("MissingScheme")
    ELSE IF Upto(s, quickfind(s, ":")) # <<"pkg">> THEN Err("InvalidScheme")
    ELSE Ok(trim_start_matches(After(s, quickfind(s, ":")), "/"))

\* the pairs of parse_qualifiers from the i-th on, added to a HashMap: a pair
\* without a value is left out, a key is lower-cased, a value decoded
RECURSIVE QualifierPairs(_, _, _)
QualifierPairs(pairs, i, map) ==
    IF i > Len(pairs) THEN Ok(map)
    ELSE LET pair == cut(pairs[i], "=")
         IN  IF pair[2] = <<>> THEN QualifierPairs(pairs, i + 1, map)
             ELSE IF ~is_qualifier_key_valid(pair[1]) THEN Err("InvalidKey")
             ELSE QualifierPairs(
                      pairs, i + 1,
                      [k \in DOMAIN map \cup {Lowercase(pair[1])} |->
                          IF k = Lowercase(pair[1]) THEN Decode(pair[2])
                          ELSE map[k]])

\* parser::parse_qualifiers: <<what is left, the qualifiers>>
parse_qualifiers(s) ==
    IF quickrfind(s, "?") = 0 THEN Ok(<<s, Empty>>)
    ELSE LET map == QualifierPairs(split(After(s, quickrfind(s, "?")), "&"),
                                   1, Empty)
         IN  IF map.kind = "Ok"
             THEN Ok(<<Upto(s, quickrfind(s, "?")), map.value>>)
             ELSE map

\* parser::parse_version: <<what is left, the version>>
parse_version(s) ==
    IF quickrfind(s, "@") = 0 THEN <<s, None>>
    ELSE <<Upto(s, quickrfind(s, "@")),
           Some(Decode(After(s, quickrfind(s, "@"))))>>

\* parser::parse_type: <<what is left, the type>>
parse_type(s) ==
    IF quickfind(s, "/") = 0 THEN Err("MissingType")
    ELSE IF ~is_type_valid(Upto(s, quickfind(s, "/")))
    THEN Err("InvalidType")
    ELSE Ok(<<After(s, quickfind(s, "/")),
              Lowercase(Upto(s, quickfind(s, "/")))>>)

\* parser::parse_name: <<what is left, the name>>
parse_name(s) ==
    LET parts == rcut(trim_matches(s, "/"), "/")
    IN  IF parts[2] = <<>> THEN Err("MissingName")
        ELSE Ok(<<parts[1], Decode(parts[2])>>)

\* the components of parse_namespace from the i-th on, joined by '/'
RECURSIVE NamespaceComponents(_, _, _)
NamespaceComponents(components, i, namespace) ==
    IF i > Len(components) THEN Ok(Some(namespace))
    ELSE IF ~is_namespace_component_valid(Decode(components[i]))
    THEN Err("InvalidNamespaceComponent")
    ELSE NamespaceComponents(
             components, i + 1,
             IF i = 1 THEN Decode(components[i])
             ELSE namespace \o <<"/">> \o Decode(components[i]))

\* parser::parse_namespace
parse_namespace(s) ==
    IF s = <<>> THEN Ok(None)
    ELSE NamespaceComponents(
             SelectSeq(split(trim_matches(s, "/"), "/"),
                       LAMBDA c : c # <<>> /\ c # <<".">> /\ c # <<"..">>),
             1, <<>>)

\* PackageUrl::from_str: scheme, qualifiers, version, type, name and namespace
\* are taken off the text in this order. The types here have no rule of their
\* own (bitbucket, github and pypi have).
PackageUrl(s) ==
    LET scheme == parse_scheme(s)
    IN  IF scheme.kind # "Ok" THEN scheme
        ELSE
    LET ql == parse_qualifiers(scheme.value)
    IN  IF ql.kind # "Ok" THEN ql
        ELSE
    LET version == parse_version(ql.value[1])
        ty == parse_type(version[1])
    IN  IF ty.kind # "Ok" THEN ty
        ELSE
    LET name == parse_name(ty.value[1])
    IN  IF name.kind # "Ok" THEN name
        ELSE
    LET namespace == parse_namespace(name.value[1])
    IN  IF namespace.kind # "Ok" THEN namespace
        ELSE Ok([ty |-> ty.value[2], namespace |-> namespace.value,
                 name |-> name.value[2], version |-> version[2],
                 qualifiers |-> ql.value[2]])

\* the byte order of the pieces qualifier keys are made of
PieceOrder == <<"a", "b", "foo">>
Rank(piece) == CHOOSE i \in 1..Len(PieceOrder) : PieceOrder[i] = piece

\* String::cmp
RECURSIVE Less(_, _)
Less(a, b) ==
    IF b = <<>> THEN FALSE
    ELSE IF a = <<>> THEN TRUE
    ELSE IF Head(a) = Head(b) THEN Less(Tail(a), Tail(b))
    ELSE Rank(Head(a)) < Rank(Head(b))

\* an insert that puts the entry behind the entries there are
push(map, k, v) == SelectSeq(map, LAMBDA e : e[1] # k) \o <<<<k, v>>>>

\* BTreeMap::insert: the entries of a map are in the order of their keys
insert(map, k, v) ==
    LET others == SelectSeq(map, LAMBDA e : e[1] # k)
        n == Cardinality({i \in 1..Len(others) : Less(others[i][1], k)})
    IN  SubSeq(others, 1, n) \o <<<<k, v>>>>
            \o SubSeq(others, n + 1, Len(others))

\* .iter().map(..).collect::<BTreeMap>() over the qualifiers of a PackageUrl,
\* which a HashMap iterates in the order given
RECURSIVE collect(_, _, _)
collect(qualifiers, order, map) ==
    IF order = <<>> THEN map
    ELSE collect(qualifiers, Tail(order),
                 insert(map, Head(order), qualifiers[Head(order)]))

\* the orders a HashMap can iterate its keys in
Orders(keys) ==
    {order \in [1..Cardinality(keys) -> keys] :
        \A i, j \in 1..Cardinality(keys) : order[i] = order[j] => i = j}

\* impl From<PackageUrl<'_>> for Purl
PurlFrom(value, order) ==
    [ty |-> value.ty, namespace |-> value.namespace, name |-> value.name,
     version |-> value.version,
     qualifiers |-> collect(value.qualifiers, order, <<>>)]

\* impl FromStr for Purl: PackageUrl::from_str(s).map(Purl::from)
\* .map_err(PurlErr::Package)
from_str(s, order) ==
    IF PackageUrl(s).kind = "Ok"
    THEN Ok(PurlFrom(PackageUrl(s).value, order))
    ELSE Err("Package")

\* the qualifiers from the i-th on, as "k=v" joined by "&"
RECURSIVE join(_, _)
join(qualifiers, i) ==
    IF i > Len(qualifiers) THEN <<>>
    ELSE (IF i = 1 THEN <<>> ELSE <<"&">>)
             \o qualifiers[i][1] \o <<"=">> \o qualifiers[i][2]
             \o join(qualifiers, i + 1)

\* impl Display for Purl: "pkg://{ty}{ns}/{name}{version}{qualifiers}"
Display(p) ==
    LET ns == IF p.namespace # None THEN <<"/">> \o p.namespace[1] ELSE <<>>
        qualifiers == IF p.qualifiers = <<>> THEN <<>>
                      ELSE <<"?">> \o join(p.qualifiers, 1)
        version == IF p.version # None THEN <<"@">> \o p.version[1]
                   ELSE <<>>
    IN  <<"pkg", ":", "/", "/">> \o p.ty \o ns \o <<"/">> \o p.name
            \o version \o qualifiers

\* const NAMESPACE: Uuid
NAMESPACE ==
    <<55, 56, 180, 61, 253, 3, 74, 157, 132, 156, 72, 155, 236, 97, 15, 6>>

\* Uuid::new_v5: a different uuid for every namespace and name
new_v5(namespace, name) == <<"v5", namespace, name>>

\* Purl::package_uuid
package_uuid(p) ==
    LET result == new_v5(NAMESPACE, p.ty)
    IN  new_v5(IF p.namespace # None THEN new_v5(result, p.namespace[1])
               ELSE result,
               p.name)

\* Purl::then_version_uuid
then_version_uuid(p, package) ==
    new_v5(package, IF p.version # None THEN p.version[1] ELSE <<>>)

\* the loop of then_qualifier_uuid from the i-th qualifier on
RECURSIVE QualifierLoop(_, _, _)
QualifierLoop(p, i, result) ==
    IF i > Len(p.qualifiers) THEN result
    ELSE QualifierLoop(p, i + 1,
                       new_v5(new_v5(result, p.qualifiers[i][1]),
                              p.qualifiers[i][2]))

\* Purl::then_qualifier_uuid
then_qualifier_uuid(p, version) == QualifierLoop(p, 1, version)

\* Purl::uuids
PurlUuids(p) ==
    LET package == package_uuid(p)
        version == then_version_uuid(p, package)
        qualified == then_qualifier_uuid(p, version)
    IN  <<package, version, qualified>>

\* the texts to parse: with and without "//", a namespace, a version and
\* qualifiers, with an upper-case type, a percent-encoded '@', qualifiers in
\* and out of key order, and texts that are no purl
PurlTexts ==
    { scheme \o ty \o ns \o <<"/">> \o name \o version \o qualifiers :
        scheme \in {<<"pkg", ":">>, <<"pkg", ":", "/", "/">>},
        ty \in {<<"maven">>, <<"NPM">>},
        ns \in {<<>>, <<"/", "io.quarkus">>, <<"/", "%40", "angular">>},
        name \in {<<"quarkus-core">>},
        version \in {<<>>, <<"@", "1.2.3">>},
        qualifiers \in {<<>>, <<"?", "foo", "=", "bar">>,
                        <<"?", "b", "=", "2", "&", "a", "=", "1">>,
                        <<"?", "a", "=", "1", "&", "b", "=", "2">>} }
        \cup {<<"not a purl">>, <<"pkg", ":", "maven">>,
              <<"gem", ":", "maven", "/", "a">>}

outsidePurl == <<importerVars, spdxVars, cveVars, runVars>>

\* Purl::from_str(input)
Parse ==
    /\ input # None
    /\ parsed = None
    /\ \E order \in
           IF PackageUrl(input[1]).kind = "Ok"
           THEN Orders(DOMAIN PackageUrl(input[1]).value.qualifiers)
           ELSE {<<>>} :
           parsed' = Some(from_str(input[1], order))
    /\ UNCHANGED <<input, rendered, reparsed, identity, outsidePurl>>

\* purl.to_string()
Render ==
    /\ parsed # None
    /\ parsed[1].kind = "Ok"
    /\ rendered = None
    /\ rendered' = Some(Display(parsed[1].value))
    /\ UNCHANGED <<input, parsed, reparsed, identity, outsidePurl>>

\* Purl::from_str(&purl.to_string())
Reparse ==
    /\ rendered # None
    /\ reparsed = None
    /\ \E order \in
           IF PackageUrl(rendered[1]).kind = "Ok"
           THEN Orders(DOMAIN PackageUrl(rendered[1]).value.qualifiers)
           ELSE {<<>>} :
           reparsed' = Some(from_str(rendered[1], order))
    /\ UNCHANGED <<input, parsed, rendered, identity, outsidePurl>>

\* purl.uuids()
Identify ==
    /\ parsed # None
    /\ parsed[1].kind = "Ok"
    /\ identity = None
    /\ identity' = Some(PurlUuids(parsed[1].value))
    /\ UNCHANGED <<input, parsed, rendered, reparsed, outsidePurl>>

InitPurl ==
    /\ input \in {Some(s) : s \in PurlTexts}
    /\ parsed = None
    /\ rendered = None
    /\ reparsed = None
    /\ identity = None
    /\ NoService
    /\ NoIngest
    /\ NoLoad
    /\ NoRun

NextPurl == Parse \/ Render \/ Reparse \/ Identify

\* one text parsed, rendered, parsed again and identified
SpecPurl == InitPurl /\ [][NextPurl]_vars

\* ------------------------------------------------------------------ import

\* the sources of an import: one that Url::parse accepts and a path
ImportSources == {"https://example.com/sboms/", "/data/sboms"}

\* Url::parse(&self.source)
UrlParse(source) ==
    IF source = "https://example.com/sboms/" THEN Ok(source)
    ELSE Err("RelativeUrlWithoutBase")

\* what the visitor records of a document: stored, stored with a warning, or
\* failed with an error
Visits == {"stored", "warning", "error"}

\* ReportBuilder::new()
ReportBuilderNew == <<>>

\* ReportBuilder::build
build(builder) ==
    [number_of_items |-> Len(builder),
     messages |-> SelectSeq(builder, LAMBDA m : m # "stored")]

\* the days of a month of a year
DaysIn(year, month) ==
    IF month = 2
    THEN IF year % 4 = 0 /\ (year % 100 # 0 \/ year % 400 = 0)
         THEN 29 ELSE 28
    ELSE IF month \in {4, 6, 9, 11} THEN 30 ELSE 31

\* Date::from_calendar_date
from_calendar_date(year, month, day) ==
    IF month \in 1..12 /\ day \in 1..DaysIn(year, month)
    THEN Ok(<<year, month, day>>)
    ELSE Err("ComponentRange")

\* ScannerError::Critical(err) and ScannerError::Normal { err, report }
Critical(err) == [kind |-> "Critical", err |-> err, report |-> None]
Normal(err, report) == [kind |-> "Normal", err |-> err, report |-> Some(report)]

\* SplitScannerError::split on the result of run_once: the report with the
\* outcome beside it, or the error of a critical failure, which has no report
SplitScannerError(result) ==
    IF result.kind = "Ok" THEN Ok(<<result.value, Ok(None)>>)
    ELSE IF result.value.kind = "Normal"
    THEN Ok(<<result.value.report[1], Err(result.value.err)>>)
    ELSE Err(result.value.err)

\* a failed result that carries a ScannerError
Failed(error) == [kind |-> "Err", value |-> error]

\* the import that has not started
NoImport(source) ==
    [pc |-> "init", source |-> source, report |-> None, once |-> None,
     logged |-> None, result |-> None, exit |-> None]

outsideRun == <<importerVars, spdxVars, cveVars, purlVars>>

\* the run is at pc and goes on to the next statement or ends with the error
Step(pc_, next, errors) ==
    /\ run # None
    /\ run[1].pc = pc_
    /\ \/ run' = Some([run[1] EXCEPT !.pc = next])
       \/ \E err \in errors :
              run' = Some([run[1] EXCEPT !.pc = "split",
                                         !.once = Some(Failed(Critical(err)))])
    /\ UNCHANGED outsideRun

\* init_log_and_progress()?
InitLog ==
    /\ run # None
    /\ run[1].pc = "init"
    /\ \/ run' = Some([run[1] EXCEPT !.pc = "connect",
                                     !.report = Some(ReportBuilderNew)])
       \/ run' = Some([run[1] EXCEPT !.pc = "returned",
                                     !.result = Some(Err("SetLogger"))])
    /\ UNCHANGED outsideRun

\* db::Database::with_external_config(&self.database, false).await?
Connect == Step("connect", "source", {"Database"})

\* the source: HttpSource with Fetcher::new(..).await? for a URL,
\* FileSource::new(&self.source, None)? for anything else
Source ==
    /\ run # None
    /\ Step("source", "validation",
            IF UrlParse(run[1].source).kind = "Ok" THEN {"Fetcher"}
            ELSE {"FileSource"})

\* ValidationOptions: Date::from_calendar_date(2007, Month::January, 1)
\* .map_err(|err| ScannerError::Critical(err.into()))?
ValidationDate ==
    Step("validation", "walk",
         IF from_calendar_date(2007, 1, 1).kind = "Ok" THEN {}
         ELSE {"ComponentRange"})

\* the walker hands a document to the visitor, which records it in the report
Visit ==
    /\ run # None
    /\ run[1].pc = "walk"
    /\ Len(run[1].report[1]) < MaxDocuments
    /\ \E visit \in Visits :
           run' = Some([run[1] EXCEPT !.report = Some(Append(@[1], visit))])
    /\ UNCHANGED outsideRun

\* Walker::walk returns: Ok, and run_once returns the report built, or an
\* error, which is returned as ScannerError::Normal with the report built
Walked ==
    /\ run # None
    /\ run[1].pc = "walk"
    /\ \/ run' = Some([run[1] EXCEPT
                          !.pc = "split",
                          !.once = Some(Ok(build(run[1].report[1])))])
       \/ run' = Some([run[1] EXCEPT
                          !.pc = "split",
                          !.once = Some(Failed(Normal("Walker",
                                                      build(run[1].report[1]))))])
    /\ UNCHANGED outsideRun

\* let (report, result) = self.run_once(progress).await.split()?;
\* log::info!("Import report: {report:#?}"); result.map(|()| ExitCode::SUCCESS)
RunReturn ==
    /\ run # None
    /\ run[1].pc = "split"
    /\ LET split_ == SplitScannerError(run[1].once[1])
       IN  run' =
               Some(IF split_.kind # "Ok"
                    THEN [run[1] EXCEPT !.pc = "returned",
                                        !.result = Some(Err(split_.kind))]
                    ELSE [run[1] EXCEPT
                             !.pc = "returned",
                             !.logged = Some(split_.value[1]),
                             !.result =
                                 Some(IF split_.value[2].kind = "Ok"
                                      THEN Ok("SUCCESS")
                                      ELSE split_.value[2])])
    /\ UNCHANGED outsideRun

\* Trustd::run: the code of Ok(code), ExitCode::FAILURE for an error
Exit ==
    /\ run # None
    /\ run[1].pc = "returned"
    /\ run' = Some([run[1] EXCEPT
                       !.pc = "exited",
                       !.exit = Some(IF run[1].result[1].kind = "Ok"
                                     THEN run[1].result[1].value
                                     ELSE "FAILURE")])
    /\ UNCHANGED outsideRun

InitRun ==
    /\ run \in {Some(NoImport(source)) : source \in ImportSources}
    /\ NoService
    /\ NoIngest
    /\ NoLoad
    /\ NoPurl

NextRun ==
    \/ InitLog
    \/ Connect
    \/ Source
    \/ ValidationDate
    \/ Visit
    \/ Walked
    \/ RunReturn
    \/ Exit

\* one run of the import command
SpecRun == InitRun /\ [][NextRun]_vars

\* ------------------------------------------------------------------ steps

UpdateOps == {"update_configuration", "update_start", "update_finish"}

\* this step is the update statement of an update call of p, executed by the
\* database
UpdateStatement(p) ==
    /\ pc[p] = "update" /\ pc'[p] # "update"
    /\ ret'[p].kind # "Database"

\* the update statement of p rewrote the row of name n, in the table or in
\* p's transaction
Wrote(p, n) ==
    \/ n \in DOMAIN tx'[p].writes
    \/ /\ n \in DOMAIN importers
       /\ n \in DOMAIN importers'
       /\ importers'[n] # importers[n]

\* this step ends an update call of p with success: the update statement of
\* update_configuration or update_start, the commit of update_finish
Succeeds(p) ==
    /\ pc'[p] = "done"
    /\ ret'[p].kind = "Ok"
    /\ pc[p] \in {"update", "commit"}

\* this step is the successful commit of an update_finish call of p
Commits(p) == pc[p] = "commit" /\ pc'[p] = "done" /\ ret'[p].kind = "Ok"

\* ------------------------------------------------------------------ C1

\* the revision every caller of a race can have read before the first update
RaceRev == Some(RevText(1))

\* two finished update_configuration calls that carried the revision the
\* importer had, with no third call made
RacePair(p, q) ==
    /\ p # q
    /\ pc[p] = "done" /\ pc[q] = "done"
    /\ call[p].op = "update_configuration"
    /\ call[q].op = "update_configuration"
    /\ call[p].name = call[q].name
    /\ call[p].expected = RaceRev /\ call[q].expected = RaceRev
    /\ \A o \in DOMAIN pc \ {p, q} : pc[o] = "idle"

\* C1: of two concurrent update_configuration calls that both carry the
\* current revision r of an existing importer, whatever the interleaving of
\* their statements, exactly one returns success and the other returns
\* MidAirCollision.
C1_RevisionLinearizability ==
    \A p \in DOMAIN pc, q \in DOMAIN pc :
        RacePair(p, q) =>
            \/ ret[p].kind = "Ok" /\ ret[q].kind = "MidAirCollision"
            \/ ret[q].kind = "Ok" /\ ret[p].kind = "MidAirCollision"

C1_Witness ==
    \E p \in DOMAIN pc, q \in DOMAIN pc :
        /\ RacePair(p, q)
        /\ ret[p].kind = "Ok"
        /\ ret[q].kind = "MidAirCollision"

\* ------------------------------------------------------------------ C2

\* C2: an update statement that carries expected_revision = r rewrites the
\* importer row only if the row exists with revision r when the statement
\* executes; one that carries no expected revision rewrites the row whenever
\* an importer of that name exists.
C2_CompareAndSwap ==
    [][\A p \in DOMAIN pc :
        UpdateStatement(p) =>
            LET c == call'[p]
                n == c.name
            IN  /\ (c.expected # None /\ Wrote(p, n)) =>
                        /\ n \in DOMAIN importers
                        /\ RevText(importers[n].revision) = c.expected[1]
                /\ (c.expected = None /\ n \in DOMAIN importers) =>
                        Wrote(p, n)]_vars

C2_Witness ==
    \E p \in DOMAIN pc, q \in DOMAIN pc :
        /\ pc[p] = "done" /\ call[p].op = "update_start"
        /\ call[p].expected = RaceRev /\ ret[p].kind = "Ok"
        /\ pc[q] = "count" /\ call[q].op = "update_finish"
        /\ call[q].expected = RaceRev

\* ------------------------------------------------------------------ C3

\* C3: every successful update_configuration, update_start and update_finish
\* leaves the importer with a revision that differs from the one it had before
\* the call and from every revision a row of that name had earlier.
C3_FreshRevision ==
    [][\A p \in DOMAIN pc :
        Succeeds(p) =>
            LET n == call'[p].name
            IN  /\ n \in DOMAIN importers /\ n \in DOMAIN importers'
                /\ importers[n].revision \in everRev[n]
                /\ importers'[n].revision \notin everRev[n]]_vars

C3_Witness ==
    \E p \in DOMAIN pc :
        /\ pc[p] = "done" /\ call[p].op = "update_finish" /\ ret[p].kind = "Ok"
        /\ Cardinality(everRev[call[p].name]) >= 3

\* ------------------------------------------------------------------ C4

\* C4: with no other operation running, an update call whose statement
\* affected no row returns NotFound(name) if no importer of that name exists,
\* and MidAirCollision if the importer exists and its revision differs from
\* the expected one.
C4_ZeroRows ==
    [][\A p \in DOMAIN pc :
        (pc[p] = "count" /\ pc'[p] = "done" /\ ret'[p].kind # "Database") =>
            LET c == call[p]
                n == c.name
            IN  /\ n \notin DOMAIN importers => ret'[p] = Err("NotFound")
                /\ n \in DOMAIN importers =>
                        /\ ret'[p] = Err("MidAirCollision")
                        /\ c.expected # None
                        /\ RevText(importers[n].revision) # c.expected[1]]_vars

C4_Witness ==
    \E p \in DOMAIN pc :
        /\ pc[p] = "done" /\ call[p].op = "update_finish"
        /\ ret[p] = Err("MidAirCollision")
        /\ call[p].name \in DOMAIN importers

\* ------------------------------------------------------------------ C5

\* this step is the delete statement of a delete call of p, executed by the
\* database
Deletes(p) == pc[p] = "delete" /\ pc'[p] = "done" /\ ret'[p].kind # "Database"

\* the importer of name n exists with a revision other than the expected one
Stale(n, expected) ==
    /\ n \in DOMAIN importers
    /\ expected # None
    /\ RevText(importers[n].revision) # expected[1]

\* C5 as stated: a delete that affects no row returns NotFound when no
\* importer of that name exists and MidAirCollision when it exists with a
\* different revision; with a matching or absent expected revision it removes
\* the importer, and read(name) then returns nothing.
C5_DeleteAsUpdate ==
    [][\A p \in DOMAIN pc :
        Deletes(p) =>
            LET c == call'[p]
                n == c.name
            IN  /\ n \notin DOMAIN importers => ret'[p] = Err("NotFound")
                /\ Stale(n, c.expected) => ret'[p] = Err("MidAirCollision")
                /\ (n \in DOMAIN importers /\ ~Stale(n, c.expected)) =>
                        read(importers', n) = None]_vars

\* C5 as the code has it: a delete that affects no row returns Ok(false) in
\* both cases, with the store unchanged; with a matching or absent expected
\* revision it removes the importer and returns Ok(true), and read(name) then
\* returns nothing.
C5_DeleteReturnsBool ==
    [][\A p \in DOMAIN pc :
        Deletes(p) =>
            LET c == call'[p]
                n == c.name
            IN  /\ (n \notin DOMAIN importers \/ Stale(n, c.expected)) =>
                        /\ ret'[p] = Ok(Some(FALSE))
                        /\ UNCHANGED <<importers, reports>>
                /\ (n \in DOMAIN importers /\ ~Stale(n, c.expected)) =>
                        /\ ret'[p] = Ok(Some(TRUE))
                        /\ read(importers', n) = None]_vars

C5_Witness ==
    \E p \in DOMAIN pc :
        /\ pc[p] = "done" /\ call[p].op = "delete"
        /\ ret[p] = Ok(Some(FALSE))
        /\ Stale(call[p].name, call[p].expected)

\* ------------------------------------------------------------------ C6

\* the reports a step adds
Added == reports' \ reports

\* this step commits an update_finish of p that reports a successful run of
\* an importer update_start had set Running
FinishesRun(p) ==
    /\ Commits(p)
    /\ call[p].last_error = None
    /\ call[p].report # None
    /\ importers[call[p].name].state = Running

\* C6 as stated: after update_start and a successful update_finish with no
\* error and a report, the importer is Waiting, last_success, last_run and
\* last_change are equal, the revision is new, and there is exactly one new
\* report, whose creation equals last_change.
C6_LifecycleEqualTimes ==
    [][\A p \in DOMAIN pc :
        FinishesRun(p) =>
            LET n == call[p].name
                new == importers'[n]
            IN  /\ new.state = Waiting
                /\ new.last_success = Some(new.last_change)
                /\ new.last_run = Some(new.last_change)
                /\ new.revision # importers[n].revision
                /\ Cardinality(Added) = 1
                /\ \A r \in Added : r.creation = new.last_change]_vars

\* C6 as the code has it: the importer is Waiting, last_success equals
\* last_change (the instant update_finish read), last_run is the value the
\* caller supplied, the revision is new, and there is exactly one new report,
\* created at or after last_change.
C6_Lifecycle ==
    [][\A p \in DOMAIN pc :
        FinishesRun(p) =>
            LET n == call[p].name
                new == importers'[n]
            IN  /\ new.state = Waiting
                /\ new.last_success = Some(new.last_change)
                /\ new.last_run = call[p].last_run
                /\ new.revision # importers[n].revision
                /\ Cardinality(Added) = 1
                /\ \A r \in Added :
                        /\ r.importer = n
                        /\ r.creation >= new.last_change
                        /\ r.creation <= clock]_vars

\* a run has finished with success and its report was created after the
\* instant update_finish had read for last_change and last_success
C6_Witness ==
    \E p \in DOMAIN pc, r \in reports :
        /\ pc[p] = "done" /\ call[p].op = "update_finish" /\ ret[p].kind = "Ok"
        /\ call[p].name \in DOMAIN importers
        /\ LET row == importers[call[p].name]
           IN  /\ row.state = Waiting
               /\ row.last_error = None
               /\ row.last_success = Some(row.last_change)
               /\ row.last_run # None
               /\ r.importer = call[p].name
               /\ r.creation > row.last_change

\* ------------------------------------------------------------------ C7

\* C7: a successful update_finish sets state = Waiting, last_run to the
\* supplied value, last_change to the instant it read and last_error to the
\* supplied value; it sets last_success to that instant when last_error is
\* None and leaves it as it was otherwise; it inserts one report, carrying the
\* importer name and the same last_error, exactly when a report was supplied.
C7_FinishEffect ==
    [][\A p \in DOMAIN pc :
        Commits(p) =>
            LET c == call[p]
                n == c.name
                old == importers[n]
                new == importers'[n]
            IN  /\ new.state = Waiting
                /\ new.last_run = c.last_run
                /\ new.last_change = c.now[1]
                /\ c.now[1] <= clock
                /\ new.last_error = c.last_error
                /\ new.last_success =
                        IF c.last_error = None THEN c.now
                        ELSE old.last_success
                /\ new.configuration = old.configuration
                /\ IF c.report = None
                   THEN reports' = reports
                   ELSE /\ reports \subseteq reports'
                        /\ Cardinality(Added) = 1
                        /\ \A r \in Added :
                                /\ r.importer = n
                                /\ r.error = c.last_error
                                /\ r.report = c.report[1]]_vars

C7_Witness ==
    \E p \in DOMAIN pc :
        /\ pc[p] = "done" /\ call[p].op = "update_finish" /\ ret[p].kind = "Ok"
        /\ reports = {}
        /\ call[p].name \in DOMAIN importers
        /\ LET row == importers[call[p].name]
           IN  /\ row.last_error # None
               /\ row.last_success # None
               /\ row.last_success # Some(row.last_change)

\* ------------------------------------------------------------------ C8

\* this step is a step of an update_finish call of p
FinishStep(p) == pc'[p] # pc[p] /\ call'[p].op = "update_finish"

\* C8: update_finish is atomic. Its successful commit is the one step that
\* changes the importer table and the report table, and it rewrites the row
\* and adds the supplied report together; every other step of the call, and
\* so every call that ends in NotFound, MidAirCollision or a failed report
\* insert, leaves both tables as they were, so no reader sees the updated row
\* without its report.
C8_FinishAtomic ==
    [][\A p \in DOMAIN pc :
        FinishStep(p) =>
            IF Commits(p)
            THEN LET n == call[p].name
                 IN  /\ importers'[n].revision # importers[n].revision
                     /\ call[p].report # None => Cardinality(Added) = 1
            ELSE UNCHANGED <<importers, reports>>]_vars

\* an update_finish whose update statement had rewritten the row in its
\* transaction failed afterwards, and the row and the reports are as before
C8_Witness ==
    \E p \in DOMAIN pc :
        /\ pc[p] = "done" /\ call[p].op = "update_finish"
        /\ ret[p].kind = "Database"
        /\ call[p].expected = RaceRev
        /\ uuids = 3
        /\ reports = {}
        /\ "a" \in DOMAIN importers
        /\ importers["a"] \in InitRows
        /\ \A q \in DOMAIN pc \ {p} : pc[q] = "idle"

\* ------------------------------------------------------------------ C9

\* this step is a successful update_start of p on the importer of name n
Starts(p, n) ==
    /\ pc[p] = "update" /\ pc'[p] = "done"
    /\ call'[p].op = "update_start" /\ call'[p].name = n
    /\ ret'[p].kind = "Ok"

\* the importer of name n exists before and after the step
Stays(n) == n \in DOMAIN importers /\ n \in DOMAIN importers'

\* the states of every importer are Waiting or Running, create yields
\* Waiting, only update_start moves Waiting to Running and only update_finish
\* moves Running to Waiting
StateMachine(n) ==
    /\ n \in DOMAIN importers' => importers'[n].state \in State
    /\ (n \notin DOMAIN importers /\ n \in DOMAIN importers') =>
            importers'[n].state = Waiting
    /\ (Stays(n) /\ importers[n].state = Waiting
            /\ importers'[n].state = Running) =>
            \E p \in DOMAIN pc : Starts(p, n)
    /\ (Stays(n) /\ importers[n].state = Running
            /\ importers'[n].state = Waiting) =>
            \E p \in DOMAIN pc : Commits(p) /\ call[p].name = n

\* C9 as stated: the state machine, and an importer in Running is never moved
\* to Running again by another update_start.
C9_StateMachineGuarded ==
    [][\A n \in Names :
        /\ StateMachine(n)
        /\ \A p \in DOMAIN pc :
                Starts(p, n) => importers[n].state = Waiting]_vars

\* C9 as the code has it: the state machine, and update_start does not look
\* at the state: whenever its revision check passes it succeeds and leaves
\* the importer Running, also when it was Running, and update_finish leaves
\* it Waiting, also when it was Waiting.
C9_StateMachine ==
    [][\A n \in Names :
        /\ StateMachine(n)
        /\ \A p \in DOMAIN pc :
                /\ Starts(p, n) => importers'[n].state = Running
                /\ (UpdateStatement(p) /\ call'[p].op = "update_start"
                        /\ call'[p].name = n /\ Wrote(p, n)) => Starts(p, n)
                /\ (Commits(p) /\ call[p].name = n) =>
                        importers'[n].state = Waiting]_vars

\* update_start succeeded on an importer that has never finished a run and
\* whose configuration no call has changed, and that had been started before
C9_Witness ==
    \E p \in DOMAIN pc :
        /\ pc[p] = "done" /\ call[p].op = "update_start" /\ ret[p].kind = "Ok"
        /\ call[p].name \in DOMAIN importers
        /\ LET row == importers[call[p].name]
           IN  /\ row.state = Running
               /\ row.last_run = None
               /\ row.last_change = 1
               /\ everRev[call[p].name] = {1, 2, 3}
               /\ clock = 1

\* ------------------------------------------------------------------ C10

\* the finished update_start calls that carried the revision every scheduler
\* read
Started ==
    {p \in DOMAIN pc :
        /\ pc[p] = "done"
        /\ call[p].op = "update_start"
        /\ call[p].expected = RaceRev}

\* C10: of the update_start calls that carry the revision r at which several
\* schedulers read the same Waiting importer, at most one succeeds and every
\* other one fails with MidAirCollision.
C10_RunLock ==
    /\ Cardinality({p \in Started : ret[p].kind = "Ok"}) <= 1
    /\ \A p \in Started : ret[p].kind \in {"Ok", "MidAirCollision"}

C10_Witness ==
    /\ Started = DOMAIN pc
    /\ Cardinality({p \in Started : ret[p].kind = "Ok"}) = 1
    /\ Cardinality({p \in Started : ret[p].kind = "MidAirCollision"}) = 2

\* ------------------------------------------------------------------ C11

\* C11: a successful update_start sets state = Running, sets last_change to
\* the time it read from the clock when it was called (the current time of
\* the call, not after the instant its statement executes) and gives the row
\* a revision it did not have, and changes nothing else: configuration,
\* last_run, last_success, last_error and every report row are as before.
C11_StartFrame ==
    [][\A p \in DOMAIN pc : \A n \in Names :
        Starts(p, n) =>
            /\ Stays(n)
            /\ importers'[n].revision # importers[n].revision
            /\ call[p].now # None
            /\ call[p].now[1] <= clock
            /\ importers'[n] =
                    [importers[n] EXCEPT !.state = Running,
                                         !.last_change = call[p].now[1],
                                         !.revision = importers'[n].revision]
            /\ \A m \in DOMAIN importers \ {n} :
                    m \in DOMAIN importers' /\ importers'[m] = importers[m]
            /\ reports' = reports]_vars

\* update_start succeeded on an importer whose earlier run had failed after
\* an earlier success
C11_Witness ==
    \E p \in DOMAIN pc :
        /\ pc[p] = "done" /\ call[p].op = "update_start" /\ ret[p].kind = "Ok"
        /\ call[p].name \in DOMAIN importers
        /\ LET row == importers[call[p].name]
           IN  /\ row.state = Running
               /\ row.last_change = 1
               /\ row.last_error = Some("boom")
               /\ row.last_success = Some(0)
               /\ row.last_run = Some(0)
               /\ row.revision = 2

\* ------------------------------------------------------------------ C12

\* this step is the insert of a create call of p for the name n, executed
\* by the database
Creates(p, n) ==
    /\ pc[p] = "create" /\ pc'[p] = "done"
    /\ call[p].name = n
    /\ ret'[p].kind # "Database"

\* the create call of q has returned success
Created(q) == pc[q] = "done" /\ call[q].op = "create" /\ ret[q].kind = "Ok"

\* C12: create on a name that does not exist adds an importer with state =
\* Waiting, last_success, last_run and last_error absent and a revision the
\* name never had; create on a name that exists returns AlreadyExists and
\* leaves the importer as it is; of two overlapping create calls for the same
\* name at most one succeeds, and exactly one when the name did not exist.
C12_Create ==
    [][\A p \in DOMAIN pc : \A n \in Names :
        Creates(p, n) =>
            IF n \in DOMAIN importers
            THEN /\ ret'[p] = Err("AlreadyExists")
                 /\ importers' = importers
            ELSE /\ ret'[p] = Ok(None)
                 /\ n \in DOMAIN importers'
                 /\ importers'[n].state = Waiting
                 /\ importers'[n].last_change = call[p].now[1]
                 /\ importers'[n].last_success = None
                 /\ importers'[n].last_run = None
                 /\ importers'[n].last_error = None
                 /\ importers'[n].revision \notin everRev[n]
                 /\ \A q \in DOMAIN pc \ {p} :
                        (call[q].op = "create" /\ call[q].name = n) =>
                            ~Created(q)]_vars

\* two create calls for the same name have returned, one with success and one
\* with AlreadyExists
C12_Witness ==
    \E p, q \in DOMAIN pc :
        /\ p # q
        /\ Created(p)
        /\ pc[q] = "done" /\ call[q].op = "create"
        /\ call[q].name = call[p].name
        /\ ret[q] = Err("AlreadyExists")
        /\ importers[call[p].name].revision = 2

\* ------------------------------------------------------------------ C13

\* the get_reports call of p has returned what its two queries gave
GotReports(p) ==
    /\ pc[p] = "done" /\ call[p].op = "get_reports"
    /\ ret[p].kind # "Database"

\* the stored reports of the importer of name n
ReportsOf(n) == {r \in reports : r.importer = n}

\* C13: get_reports(name, paginated) returns only reports whose importer is
\* name, each a stored report and none twice, in descending order of their
\* creation; the first report of the first page is one of the most recently
\* created reports of that importer, and a page holds page_size reports as
\* long as that many remain.
C13_ReportsNewestFirst ==
    \A p \in DOMAIN pc :
        GotReports(p) =>
            LET n == call[p].name
                pg == call[p].paginated[1]
                items == ret[p].value[1].items
                rest == Cardinality(ReportsOf(n)) - pg.page * pg.page_size
            IN  /\ ret[p].kind = "Ok"
                /\ \A i \in DOMAIN items :
                        /\ items[i].importer = n
                        /\ \E r \in ReportsOf(n) : items[i] = ImporterReport(r)
                /\ \A i, j \in DOMAIN items :
                        i < j => /\ items[i].creation >= items[j].creation
                                 /\ items[i].id # items[j].id
                /\ (pg.page = 0 /\ ReportsOf(n) # {}) =>
                        /\ Len(items) >= 1
                        /\ \A r \in ReportsOf(n) : items[1].creation >= r.creation
                /\ Len(items) =
                        IF rest <= 0 THEN 0
                        ELSE IF rest < pg.page_size THEN rest ELSE pg.page_size

\* a first page of two reports of different age, the newer first, while the
\* other importer has a report too
C13_Witness ==
    \E p \in DOMAIN pc :
        /\ GotReports(p)
        /\ call[p].paginated = Some([page |-> 0, page_size |-> 2])
        /\ Len(ret[p].value[1].items) = 2
        /\ ret[p].value[1].items[1].creation
                > ret[p].value[1].items[2].creation
        /\ ReportsOf(call[p].name) # reports
        /\ Cardinality(ReportsOf(call[p].name)) = 2

\* ------------------------------------------------------------------ C14

\* this step turns the error of the call of p into its response
Responds(p) == pc[p] = "done" /\ pc'[p] = "responded"

\* C14: the response to an importer-service error has status 409 for
\* AlreadyExists, 404 for NotFound, 412 for MidAirCollision and 500 for every
\* other error (Database, Json), and every error has a response.
C14_ErrorStatus ==
    [][\A p \in DOMAIN pc :
        /\ (pc[p] = "done" /\ ret[p].kind \in ErrorKinds) => ENABLED ErrorResponse(p)
        /\ Responds(p) =>
            LET kind == ret[p].kind
                status == ret'[p].value[1].status
            IN  /\ kind = "AlreadyExists" => status = 409
                /\ kind = "NotFound" => status = 404
                /\ kind = "MidAirCollision" => status = 412
                /\ kind \in {"Database", "Json"} => status = 500
                /\ status \in {409, 404, 412, 500}]_vars

\* a Json error has been answered with 500 Internal
C14_Witness ==
    \E p \in DOMAIN pc :
        /\ pc[p] = "responded"
        /\ ret[p].value[1].status = 500
        /\ ret[p].value[1].body.error = "Internal"
        /\ ret[p].value[1].body.message = "serde_json::Error"

\* ------------------------------------------------------------------ C15

\* the SPDX kinds the claim rewrites, with the internal kind of each
Converse ==
    [Contains |-> "ContainedBy", DependsOn |-> "DependencyOf",
     Describes |-> "DescribedBy", DescendantOf |-> "AncestorOf",
     Generates |-> "GeneratedFrom"]

\* the SPDX kinds that have an internal kind of the same name
PassThrough ==
    {"ContainedBy", "DescribedBy", "DependencyOf", "DevDependencyOf",
     "OptionalDependencyOf", "ProvidedDependencyOf", "TestDependencyOf",
     "RuntimeDependencyOf", "ExampleOf", "GeneratedFrom", "AncestorOf",
     "VariantOf", "BuildToolOf", "DevToolOf"}

\* the loops over document_describes and the relationships have run
Prepared == sbom_data # None /\ at # "start"

\* C15: of every relationship (l, r) of the document, Contains becomes
\* ContainedBy(r, l), DependsOn DependencyOf(r, l), Describes
\* DescribedBy(r, l), DescendantOf AncestorOf(r, l) and Generates
\* GeneratedFrom(r, l), and a kind that has an internal name keeps its kind
\* and its order (l, r); so a relationship and its converse form give the same
\* internal edge.
C15_Normalization ==
    Prepared =>
        \A i \in DOMAIN sbom_data.relationships :
            LET v == sbom_data.relationships[i]
                l == v.spdx_element_id
                k == v.relationship_type
                r == v.related_spdx_element
            IN  /\ k \in DOMAIN Converse =>
                    /\ <<r, Converse[k], l>> \in creators.relationships
                    /\ SpdxRelationshipOf(v) =
                            SpdxRelationshipOf(Rel(r, Converse[k], l))
                /\ k \in PassThrough =>
                    /\ <<l, k, r>> \in creators.relationships
                    /\ SpdxRelationshipOf(v) = Some(<<l, k, r>>)

\* a document whose only relationship was DescendantOf(A, B) has been
\* ingested, and its only edge is AncestorOf(B, A)
C15_Witness ==
    /\ at = "done"
    /\ outcome = Some(Ok(None))
    /\ sbom_data.relationships =
            <<Rel("SPDXRef-A", "DescendantOf", "SPDXRef-B")>>
    /\ graph.relationships = {<<"SPDXRef-B", "AncestorOf", "SPDXRef-A">>}

\* ------------------------------------------------------------------ C16

\* the internal edge of a relationship of the document, by the table of the
\* kinds
Edge(v) ==
    IF v.relationship_type \in DOMAIN Converse
    THEN <<v.related_spdx_element, Converse[v.relationship_type],
           v.spdx_element_id>>
    ELSE <<v.spdx_element_id, v.relationship_type, v.related_spdx_element>>

\* the relationships of the document whose kind has an internal kind
Mapped ==
    {i \in DOMAIN sbom_data.relationships :
        sbom_data.relationships[i].relationship_type
            \in DOMAIN Converse \cup PassThrough}

\* C16: a relationship whose kind has no internal kind is dropped: the loops
\* leave exactly the edges of document_describes and of the relationships
\* that have an internal kind, whatever comes before or after them in the
\* document, return no error, and the ingest goes on to the packages.
C16_UnmappedDropped ==
    [][(at = "start" /\ at' # "start") =>
        /\ at' = "package"
        /\ outcome' = None
        /\ creators'.relationships =
                {<<sbom_data.document_describes[i], "DescribedBy",
                   sbom_data.spdx_identifier>> :
                    i \in DOMAIN sbom_data.document_describes}
                \cup {Edge(sbom_data.relationships[i]) : i \in Mapped}]_vars

\* a document whose first relationship has a kind without internal kind has
\* been ingested, with the edge of its second relationship only
C16_Witness ==
    /\ at = "done"
    /\ outcome = Some(Ok(None))
    /\ sbom_data.document_describes = <<>>
    /\ Len(sbom_data.relationships) = 2
    /\ sbom_data.relationships[1].relationship_type = "Other"
    /\ sbom_data.relationships[2] = Rel("SPDXRef-A", "Contains", "SPDXRef-B")
    /\ graph.relationships = {<<"SPDXRef-B", "ContainedBy", "SPDXRef-A">>}

\* ------------------------------------------------------------------ C17

\* the node ids of the document: its own id, its packages and its files
DocumentNodes ==
    {sbom_data.spdx_identifier}
        \cup {sbom_data.package_information[i].package_spdx_identifier :
                i \in DOMAIN sbom_data.package_information}
        \cup {sbom_data.file_information[i].file_spdx_identifier :
                i \in DOMAIN sbom_data.file_information}

\* an accumulated relationship has a node id the document does not have
Dangling ==
    \E r \in creators.relationships :
        r[1] \notin DocumentNodes \/ r[3] \notin DocumentNodes

\* C17: after a successful ingest every relationship written has a left and a
\* right node id that is the document id, a package id or a file id of the
\* document; when an accumulated relationship has another node id, the ingest
\* fails, with the invalid-reference error once it reaches the validation, and
\* no package, file or relationship row is written.
C17_RelationshipClosure ==
    Prepared =>
        /\ outcome = Some(Ok(None)) =>
                /\ graph.relationships = creators.relationships
                /\ \A r \in graph.relationships :
                        r[1] \in DocumentNodes /\ r[3] \in DocumentNodes
        /\ Dangling =>
                /\ at \notin {"packages", "files", "relationships"}
                /\ graph.packages = {}
                /\ graph.files = {}
                /\ graph.relationships = {}
                /\ at = "done" =>
                        /\ outcome \in {Some(Err("Generic")), Some(Err("Database"))}
                        /\ flushed = <<"purls", "cpes">> =>
                                outcome = Some(Err("Generic"))

\* an ingest with a package, a file and a relationship to a node the document
\* does not have has failed at the validation, after the purls and cpes
C17_Witness ==
    /\ at = "done"
    /\ outcome = Some(Err("Generic"))
    /\ Dangling
    /\ creators.packages # {}
    /\ creators.files # {}
    /\ graph.purls # {}
    /\ graph.packages = {}
    /\ graph.files = {}
    /\ graph.relationships = {}

\* ------------------------------------------------------------------ C18

FlushOrder == <<"purls", "cpes", "packages", "files", "relationships">>

\* C18: the creators are flushed in the order purls, cpes, packages, files,
\* relationships, each after the one before it succeeded; rows are written by
\* the flush of their creator only, so the relationships are written when
\* every package and file of the run is; a failure ends the ingest with no
\* further flush.
C18_FlushOrder ==
    [][Prepared =>
        /\ flushed' # flushed =>
                /\ Len(flushed) < Len(FlushOrder)
                /\ flushed' = SubSeq(FlushOrder, 1, Len(flushed) + 1)
        /\ \A c \in {FlushOrder[i] : i \in DOMAIN FlushOrder} :
                graph'[c] # graph[c] => flushed' = Append(flushed, c)
        /\ graph'.relationships # graph.relationships =>
                /\ creators.packages \subseteq graph.packages
                /\ creators.files \subseteq graph.files
        /\ (outcome' # None /\ outcome' # Some(Ok(None))) =>
                /\ at' = "done"
                /\ flushed' = flushed
                /\ graph' = graph
        /\ at = "done" => flushed' = flushed /\ graph' = graph]_vars

\* an ingest of packages, files and relationships has flushed all five
\* creators
C18_Witness ==
    /\ at = "done"
    /\ outcome = Some(Ok(None))
    /\ flushed = FlushOrder
    /\ graph.purls # {}
    /\ graph.cpes # {}
    /\ graph.packages # {}
    /\ graph.files # {}
    /\ graph.relationships # {}

\* ------------------------------------------------------------------ C19

\* the node ids the document describes: the entries of documentDescribes and
\* the described side of its Describes and DescribedBy relationships
DescribesTargets ==
    {sbom_data.document_describes[i] : i \in DOMAIN sbom_data.document_describes}
        \cup {sbom_data.relationships[i].related_spdx_element :
                i \in {j \in DOMAIN sbom_data.relationships :
                    sbom_data.relationships[j].relationship_type = "Describes"}}
        \cup {sbom_data.relationships[i].spdx_element_id :
                i \in {j \in DOMAIN sbom_data.relationships :
                    sbom_data.relationships[j].relationship_type = "DescribedBy"}}

\* ingest_product, and ingest_product_version if it has a version, have been
\* invoked for the package
Registered(package) ==
    /\ [name |-> package.package_name, vendor |-> package.package_supplier]
            \in graph.products
    /\ package.package_version # None =>
            [product |-> package.package_name,
             version |-> package.package_version[1],
             sbom_id |-> Some(SbomId)] \in graph.product_versions

\* C19: after the package loop, every package that is a describes target of
\* the document (listed in documentDescribes, or the described side of a
\* Describes or DescribedBy relationship) is registered as a product, with its
\* version if it has one, and no other package is.
C19_ProductsRegistered ==
    (Prepared /\ outcome = Some(Ok(None))) =>
        \A i \in DOMAIN sbom_data.package_information :
            LET package == sbom_data.package_information[i]
            IN  IF package.package_spdx_identifier \in DescribesTargets
                THEN Registered(package)
                ELSE \A product \in graph.products :
                        product.name # package.package_name

\* ------------------------------------------------------------------ C20

\* this step is a round of the loop of fix_license
Fixes == at = "fix_license" /\ idx' = idx + 1

\* C20: fix_license replaces a licenseDeclared string that does not parse as
\* an SPDX expression by NOASSERTION and reports one message for it, and
\* leaves every other package and member as it is; the changed flag is true
\* exactly when a package has been repaired, and the messages reported are as
\* many as the packages repaired.
C20_LicenseRepair ==
    [][/\ Fixes =>
            LET old == json.packages.array[idx]
                new == json'.packages.array[idx]
                declared == old.licenseDeclared
            IN  /\ IF DOMAIN declared = {"string"}
                        /\ declared.string \notin ValidExpressions
                   THEN /\ new = [old EXCEPT
                                !.licenseDeclared = JString("NOASSERTION")]
                        /\ Len(sink') = Len(sink) + 1
                        /\ changed'
                   ELSE /\ new = old
                        /\ sink' = sink
                        /\ changed' = changed
                /\ Len(json'.packages.array) = Len(json.packages.array)
                /\ \A j \in DOMAIN json.packages.array :
                        j # idx => json'.packages.array[j] = json.packages.array[j]
       /\ changed' <=> Len(sink') >= 1
       /\ outcome' # None => outcome' = Some(<<json, changed>>)
       /\ ~Fixes =>
            /\ sink' = sink /\ changed' = changed
            /\ at = "fix_license" => json' = json]_vars

\* fix_license has returned a document of three packages of which it repaired
\* the first and the last
C20_Witness ==
    /\ at = "done"
    /\ outcome = Some(<<json, TRUE>>)
    /\ Len(sink) = 2
    /\ Len(json.packages.array) = 3
    /\ json.packages.array[1].licenseDeclared = JString("NOASSERTION")
    /\ json.packages.array[2].licenseDeclared = JString("MIT")
    /\ json.packages.array[3].licenseDeclared = JString("NOASSERTION")

\* ------------------------------------------------------------------ C21

\* this step is the commit of the load of q, which returns Ok
LoadCommits(q) ==
    /\ loads[q].pc = "commit"
    /\ loads'[q].pc = "done"
    /\ loads'[q].result # None
    /\ loads'[q].result[1].kind = "Ok"

\* this step ends the load of q with an error
LoadFails(q) ==
    /\ loads[q].pc # "done"
    /\ loads'[q].pc = "done"
    /\ loads'[q].result[1].kind # "Ok"

\* the descriptions the record carries, per language; of several descriptions
\* in one language the last
RecordDescriptions(cve) ==
    LET ds == IF cve.state = "REJECTED" THEN cve.rejected_reasons
              ELSE cve.descriptions
        at_(l) == {i \in 1..Len(ds) : ds[i].language = l}
    IN  [l \in {ds[i].language : i \in 1..Len(ds)} |->
            ds[CHOOSE i \in at_(l) : \A j \in at_(l) : j <= i].value]

\* after this step the store holds the vulnerability of the record of q, the
\* advisory under the sha256 of its bytes, and the link between the two
Loaded(q) ==
    LET cve == loads[q].cve[1]
        digest == sha256(loads[q].record[1])
    IN  /\ cve.id \in DOMAIN base'.vulnerabilities
        /\ digest \in DOMAIN base'.advisories
        /\ base'.advisories[digest].identifier = cve.id
        /\ <<base'.advisories[digest].id, cve.id>> \in DOMAIN base'.links

\* the vulnerability of q's record has exactly the record's descriptions
ExactDescriptions(q) ==
    LET cve == loads[q].cve[1]
    IN  base'.vulnerabilities[cve.id].descriptions = RecordDescriptions(cve)

\* the vulnerability of q's record has the record's description in each
\* language of the record, and in every other language what it had before
MergedDescriptions(q) ==
    LET cve == loads[q].cve[1]
        now == base'.vulnerabilities[cve.id].descriptions
        record == RecordDescriptions(cve)
    IN  /\ \A l \in DOMAIN record : l \in DOMAIN now /\ now[l] = record[l]
        /\ \A l \in DOMAIN now \ DOMAIN record :
               /\ cve.id \in DOMAIN base.vulnerabilities
               /\ l \in DOMAIN base.vulnerabilities[cve.id].descriptions
               /\ base.vulnerabilities[cve.id].descriptions[l] = now[l]

\* only the commit of a load changes the store, and it writes every row of the
\* load at once; a load that fails leaves the store as it was
AllOrNothing ==
    /\ base' # base => \E q \in Loaders : LoadCommits(q)
    /\ \A q \in Loaders : LoadFails(q) => base' = base /\ loads'[q].tx = None
    /\ \A q \in Loaders : LoadCommits(q) => Loaded(q)

\* C21 as stated: CVE ingest is all-or-nothing, and after a successful load of
\* record X the vulnerability X exists, the advisory is found by the sha256 of
\* the bytes, the link is present, and the vulnerability has exactly the
\* descriptions of the record per language
C21_ExactDescriptions ==
    [][/\ AllOrNothing
       /\ \A q \in Loaders : LoadCommits(q) => ExactDescriptions(q)]_vars

\* C21: CVE ingest is all-or-nothing: a load commits the vulnerability, its
\* descriptions, the advisory keyed by the sha256 of the bytes and the link
\* together, or none of them. After a successful load of record X the
\* vulnerability X exists, the advisory is found by the sha256 of the bytes,
\* the link is present, and the vulnerability has the record's description in
\* each language of the record; descriptions in other languages that earlier
\* loads of X wrote are still there
C21_AllOrNothing ==
    [][/\ AllOrNothing
       /\ \A q \in Loaders : LoadCommits(q) => MergedDescriptions(q)]_vars

\* a load has committed a record that has no English description over a
\* vulnerability that an earlier load gave one
C21_Witness ==
    \E o \in Loaders :
        /\ loads[o].pc = "done"
        /\ loads[o].result[1].kind = "Ok"
        /\ "en" \notin DOMAIN RecordDescriptions(loads[o].cve[1])
        /\ loads[o].cve[1].id \in DOMAIN base.vulnerabilities
        /\ "en" \in DOMAIN
               base.vulnerabilities[loads[o].cve[1].id].descriptions

\* ------------------------------------------------------------------ C22

\* this step is the ingest_vulnerability statement of the load of q
IngestsVulnerability(q) ==
    /\ loads[q].pc = "ingest_vulnerability"
    /\ loads'[q].pc # "ingest_vulnerability"
    /\ loads'[q].tx # None

\* the vulnerability row the ingest_vulnerability statement of q leaves in its
\* transaction
RowAfter(q) == loads'[q].tx[1].vulnerabilities[loads[q].cve[1].id]

\* the rejection date of the record, as the store holds instants
RejectionDate(cve) ==
    IF cve.date_rejected = None THEN None
    ELSE Some([instant |-> cve.date_rejected[1], offset |-> 0])

\* what a rejected record does to the vulnerability: a new row is withdrawn
\* at the rejection date and has no title and no cwe; an existing row gets the
\* rejection date if it had no withdrawal date and keeps its title and cwe
RejectedVulnerability(q) ==
    LET cve == loads[q].cve[1]
        rows == View(q).vulnerabilities
    IN  IF cve.id \notin DOMAIN rows
        THEN /\ RowAfter(q).withdrawn = RejectionDate(cve)
             /\ RowAfter(q).title = None
             /\ RowAfter(q).cwe = None
        ELSE /\ rows[cve.id].withdrawn = None
                    => RowAfter(q).withdrawn = RejectionDate(cve)
             /\ RowAfter(q).title = rows[cve.id].title
             /\ RowAfter(q).cwe = rows[cve.id].cwe

\* what a published record does to the withdrawal date of the vulnerability:
\* nothing
PublishedVulnerability(q) ==
    LET cve == loads[q].cve[1]
        rows == View(q).vulnerabilities
    IN  RowAfter(q).withdrawn =
            IF cve.id \in DOMAIN rows THEN rows[cve.id].withdrawn ELSE None

\* the rows the commit of a rejected record leaves: the advisory is withdrawn
\* at the rejection date and has no title, the edge has no title and no cwe,
\* and every rejected reason is a description of the vulnerability
RejectedRows(q) ==
    LET cve == loads[q].cve[1]
        advisory == base'.advisories[sha256(loads[q].record[1])]
        edge == base'.links[<<advisory.id, cve.id>>]
        descriptions == base'.vulnerabilities[cve.id].descriptions
        reasons == cve.rejected_reasons
    IN  /\ advisory.withdrawn = RejectionDate(cve)
        /\ advisory.title = None
        /\ edge.title = None
        /\ edge.cwe = None
        /\ \A i \in 1..Len(reasons) :
               /\ reasons[i].language \in DOMAIN descriptions
               /\ (\A j \in (i + 1)..Len(reasons) :
                       reasons[j].language # reasons[i].language)
                      => descriptions[reasons[i].language] = reasons[i].value

\* C22: for a rejected CVE record the loader sets the withdrawn date of the
\* vulnerability and of the advisory to the rejection date of the record, uses
\* the rejected reasons as the descriptions of the vulnerability and sets no
\* title and no cwe; for a published record it sets no withdrawn date
C22_Rejected ==
    [][\A q \in Loaders :
           /\ IngestsVulnerability(q)
                  => IF loads[q].cve[1].state = "REJECTED"
                     THEN RejectedVulnerability(q)
                     ELSE PublishedVulnerability(q)
           /\ LoadCommits(q)
                  => IF loads[q].cve[1].state = "REJECTED"
                     THEN RejectedRows(q)
                     ELSE base'.advisories[sha256(loads[q].record[1])]
                              .withdrawn = None]_vars

\* a rejected record with a rejection date and a reason has been loaded
C22_Witness ==
    \E q \in Loaders :
        /\ loads[q].pc = "done"
        /\ loads[q].result[1].kind = "Ok"
        /\ loads[q].cve[1].state = "REJECTED"
        /\ loads[q].cve[1].date_rejected # None
        /\ base.vulnerabilities[loads[q].cve[1].id].withdrawn =
               RejectionDate(loads[q].cve[1])
        /\ "en" \in DOMAIN base.vulnerabilities[loads[q].cve[1].id].descriptions

\* ------------------------------------------------------------------ C23

\* the positions <<i, j>> of the problem type descriptions of the record that
\* carry a cwe_id
CwePositions(cve) ==
    UNION {{<<i, j>> : j \in {k \in 1..Len(cve.problem_types[i].descriptions) :
                                 cve.problem_types[i].descriptions[k].cwe_id
                                     # None}} :
              i \in 1..Len(cve.problem_types)}

\* position a comes before position b in document order
Before(a, b) == a[1] < b[1] \/ (a[1] = b[1] /\ a[2] <= b[2])

\* the first cwe_id of the record in document order, if it has any
FirstCwe(cve) ==
    IF CwePositions(cve) = {} THEN None
    ELSE LET first == CHOOSE a \in CwePositions(cve) :
                          \A b \in CwePositions(cve) : Before(a, b)
         IN  cve.problem_types[first[1]].descriptions[first[2]].cwe_id

\* the values of the English descriptions of the record
EnglishDescriptions(cve) ==
    {cve.descriptions[i].value :
        i \in {k \in 1..Len(cve.descriptions) :
                  cve.descriptions[k].language = "en"}}

\* what a published record does to the vulnerability: a new row has the title
\* of the CNA container and the first cwe_id of the record, an existing row
\* gets them where it had none
PublishedTitleAndCwe(q) ==
    LET cve == loads[q].cve[1]
        rows == View(q).vulnerabilities
    IN  /\ (cve.id \notin DOMAIN rows \/ rows[cve.id].title = None)
               => RowAfter(q).title = cve.title
        /\ (cve.id \notin DOMAIN rows \/ rows[cve.id].cwe = None)
               => RowAfter(q).cwe = FirstCwe(cve)

\* the rows the commit of a published record leaves: the advisory has the
\* title, the edge has the title, the first cwe_id and an English description
\* of the record, or none if the record has none
PublishedRows(q) ==
    LET cve == loads[q].cve[1]
        advisory == base'.advisories[sha256(loads[q].record[1])]
        edge == base'.links[<<advisory.id, cve.id>>]
    IN  /\ advisory.title = cve.title
        /\ edge.title = cve.title
        /\ edge.cwe = FirstCwe(cve)
        /\ IF EnglishDescriptions(cve) = {} THEN edge.description = None
           ELSE /\ edge.description # None
                /\ edge.description[1] \in EnglishDescriptions(cve)

\* C23: for a published CVE record the loader takes the title from the CNA
\* container, takes as cwe the first cwe_id present, in document order, among
\* the descriptions of the problem types (none if there is none), and gives
\* the advisory-vulnerability edge the English description of the record
\* (none if there is none); the vulnerability gets the same title and cwe and
\* the advisory the same title
C23_Published ==
    [][\A q \in Loaders :
           /\ (IngestsVulnerability(q) /\ loads[q].cve[1].state = "PUBLISHED")
                  => PublishedTitleAndCwe(q)
           /\ (LoadCommits(q) /\ loads[q].cve[1].state = "PUBLISHED")
                  => PublishedRows(q)]_vars

\* a published record whose first problem type description has no cwe_id and
\* whose second has one has been loaded, and its edge carries that cwe_id and
\* the English description
C23_Witness ==
    \E q \in Loaders :
        /\ loads[q].pc = "done"
        /\ loads[q].result[1].kind = "Ok"
        /\ loads[q].cve[1].state = "PUBLISHED"
        /\ <<1, 1>> \notin CwePositions(loads[q].cve[1])
        /\ <<1, 2>> \in CwePositions(loads[q].cve[1])
        /\ <<2, 1>> \in CwePositions(loads[q].cve[1])
        /\ LET edge == base.links[<<loads[q].advisory[1],
                                   loads[q].cve[1].id>>]
           IN  /\ edge.cwe = Some("CWE-79")
               /\ edge.description = Some("d1")
               /\ edge.title = Some("T")

\* ------------------------------------------------------------------ C24

\* loader o has loaded the bytes that q is loading, and has returned Ok
LoadedBefore(o, q) ==
    /\ o # q
    /\ loads[o].pc = "done"
    /\ loads[o].result[1].kind = "Ok"
    /\ loads[q].record = loads[o].record

\* the load of q has a statement to run
Loading(q) == loads[q].pc \in LoadFailPositions

\* the next statement of the load of q can run
CanContinue(q) ==
    ENABLED (\/ IngestVulnerability(q)
             \/ AddDescription(q)
             \/ IngestAdvisory(q)
             \/ Link(q)
             \/ Commit(q))

\* C24: loading the same CVE record bytes a second time, after or while they
\* are loaded a first time, leaves the store with the rows the first load
\* left: the commit of the second load changes no vulnerability, description,
\* advisory or link row and it returns the advisory id and the document id the
\* first load returned; the rows the first load left never stop a statement
\* of the second
C24_Idempotent ==
    /\ [](\A q \in Loaders, o \in Loaders :
              (LoadedBefore(o, q) /\ Loading(q)) => CanContinue(q))
    /\ [][\A q \in Loaders, o \in Loaders :
              (LoadedBefore(o, q) /\ LoadCommits(q))
                  => /\ base' = base
                     /\ loads'[q].result = loads[o].result]_vars

\* both loaders have loaded the same record, which has descriptions, and the
\* store has handed out one advisory id
C24_Witness ==
    /\ \A q \in Loaders :
           /\ loads[q].pc = "done"
           /\ loads[q].result[1].kind = "Ok"
           /\ Select(loads[q].cve[1]).descriptions # <<>>
    /\ loads["l1"].record = loads["l2"].record
    /\ loads["l1"].result = loads["l2"].result
    /\ ids = 1

\* ------------------------------------------------------------------ C25

\* the example purl of the specification, as text and as value
ExampleText ==
    <<"pkg", ":", "/", "/", "maven", "/", "io.quarkus", "/", "quarkus-core",
      "@", "1.2.3", "?", "foo", "=", "bar">>

ExamplePurl ==
    [ty |-> <<"maven">>, namespace |-> Some(<<"io.quarkus">>),
     name |-> <<"quarkus-core">>, version |-> Some(<<"1.2.3">>),
     qualifiers |-> <<<<<<"foo">>, <<"bar">>>>>>]

\* the keys of the qualifiers of a purl are in ascending order
SortedByKey(p) ==
    \A i \in 1..(Len(p.qualifiers) - 1) :
        Less(p.qualifiers[i][1], p.qualifiers[i + 1][1])

\* C25: the purl round trip: parsing the rendering of a purl gives the purl
\* back, the rendering lists the qualifiers in the order of their keys, and
\* "pkg://maven/io.quarkus/quarkus-core@1.2.3?foo=bar" parses to type maven,
\* namespace io.quarkus, name quarkus-core, version 1.2.3, qualifier foo=bar
\* and renders back to the same text
C25_RoundTrip ==
    /\ reparsed # None => reparsed[1] = parsed[1]
    /\ (parsed # None /\ parsed[1].kind = "Ok")
           => SortedByKey(parsed[1].value)
    /\ (parsed # None /\ input[1] = ExampleText)
           => parsed[1] = Ok(ExamplePurl)
    /\ (rendered # None /\ input[1] = ExampleText)
           => rendered[1] = ExampleText

\* ------------------------------------------------------------------ C26

\* the uuid at the end of the chain of v5 derivations from start over names
RECURSIVE Chain(_, _)
Chain(start, names) ==
    IF names = <<>> THEN start
    ELSE Chain(new_v5(start, Head(names)), Tail(names))

\* the keys of a set, in ascending order
RECURSIVE Ascending(_)
Ascending(keys) ==
    IF keys = {} THEN <<>>
    ELSE LET least == CHOOSE k \in keys :
                          \A other \in keys \ {k} : Less(k, other)
         IN  <<least>> \o Ascending(keys \ {least})

\* key, value, key, value, ... of the qualifiers, in the order of the keys
RECURSIVE KeysAndValues(_, _)
KeysAndValues(qualifiers, keys) ==
    IF keys = <<>> THEN <<>>
    ELSE <<Head(keys), qualifiers[Head(keys)]>>
             \o KeysAndValues(qualifiers, Tail(keys))

\* C26: the identifiers of a purl: package_uuid is the chain of v5 derivations
\* from NAMESPACE over the type, the namespace if there is one, and the name;
\* version_uuid is v5 of package_uuid and the version, or nothing if there is
\* none; qualified_uuid is the chain from version_uuid over the key and the
\* value of each qualifier in the order of the keys, whatever order the
\* qualifiers were given in, and is version_uuid for a purl without
\* qualifiers; uuids() returns the three
C26_Uuids ==
    (identity # None) =>
        LET given == PackageUrl(input[1]).value
            package ==
                Chain(NAMESPACE,
                      <<given.ty>>
                          \o (IF given.namespace = None THEN <<>>
                              ELSE <<given.namespace[1]>>)
                          \o <<given.name>>)
            version ==
                new_v5(package,
                       IF given.version = None THEN <<>>
                       ELSE given.version[1])
            qualified ==
                Chain(version,
                      KeysAndValues(given.qualifiers,
                                    Ascending(DOMAIN given.qualifiers)))
        IN  /\ identity[1] = <<package, version, qualified>>
            /\ given.qualifiers = Empty => identity[1][3] = identity[1][2]

\* the purl of a text that gives qualifier b before qualifier a, with a
\* namespace and a version, has been identified
C26_Witness ==
    /\ identity # None
    /\ quickfind(input[1], "b") > 0
    /\ quickfind(input[1], "b") < quickfind(input[1], "a")
    /\ parsed[1].value.namespace # None
    /\ parsed[1].value.version # None
    /\ identity[1][3] # identity[1][2]

\* ------------------------------------------------------------------ C27

\* run_once was called and the run has returned its outcome
Returned ==
    /\ run # None
    /\ run[1].pc \in {"returned", "exited"}
    /\ run[1].report # None

\* the run has come to an end without a failure
Succeeded ==
    /\ run[1].once # None
    /\ run[1].once[1].kind = "Ok"

\* C27: every run of the import produces a report, whatever its outcome: when
\* the run has returned, after a success, a failure of the walker or a failure
\* before the walk (database connection, fetcher or source, validation date),
\* a report has been built and recorded; the exit code is that of success
\* after a success and that of failure after any failure
C27_AlwaysReport ==
    /\ Returned => run[1].logged # None
    /\ (run # None /\ run[1].pc = "exited")
           => run[1].exit =
                  Some(IF Succeeded THEN "SUCCESS" ELSE "FAILURE")

\* ------------------------------------------------------------------ C28

\* the ingest has not passed the validation
BeforeValidation == at \in {"purls", "cpes", "validate"}

\* C28: the validation of the relationships happens before any creator is
\* flushed: no creator has issued an insert while the validation is still to
\* come, and when the validation has failed no creator (purls, cpes, packages,
\* files, relationships) has issued an insert and no product is registered
C28_ValidateFirst ==
    Prepared =>
        /\ BeforeValidation => flushed = <<>>
        /\ (at = "done" /\ outcome = Some(Err("Generic")))
               => /\ flushed = <<>>
                  /\ graph.purls = {}
                  /\ graph.cpes = {}
                  /\ graph.products = {}
                  /\ graph.product_versions = {}

\* ------------------------------------------------------------------ C29

\* the external references of the package the loop is at whose locator does
\* not parse
Unparsable ==
    {i \in DOMAIN Package.external_reference :
        LET r == Package.external_reference[i]
        IN  \/ r.reference_type = "purl"
               /\ r.reference_locator \notin ParsablePurls
            \/ r.reference_type = "cpe22Type"
               /\ r.reference_locator \notin ParsableCpes}

\* the identifiers a package should refer to: those of its purl and cpe
\* references that parse
ValidReferences(package) ==
    {r.reference_locator :
        r \in {package.external_reference[i] :
                  i \in {k \in DOMAIN package.external_reference :
                            LET e == package.external_reference[k]
                            IN  \/ e.reference_type = "purl"
                                   /\ e.reference_locator \in ParsablePurls
                                \/ e.reference_type = "cpe22Type"
                                   /\ e.reference_locator \in ParsableCpes}}}

\* this step adds the package the loop is at, which has a reference that does
\* not parse
AddsWithUnparsable ==
    /\ at = "package"
    /\ idx <= Len(sbom_data.package_information)
    /\ Unparsable # {}
    /\ (at' # at \/ idx' # idx)

\* the step goes on with the ingest, adds the package, and adds to the purl
\* and cpe creators the references of the package that parse and nothing else
SkipsUnparsable ==
    /\ at' # "done"
    /\ outcome' = outcome
    /\ \E node \in creators'.packages :
           /\ node.node_id = Package.package_spdx_identifier
           /\ {node.refs[i].id : i \in DOMAIN node.refs}
                  = {"uuid5(" \o l \o ")" : l \in ValidReferences(Package)}
    /\ (creators'.purls \cup creators'.cpes)
           \ (creators.purls \cup creators.cpes)
           \subseteq ValidReferences(Package)
    /\ ValidReferences(Package) \subseteq creators'.purls \cup creators'.cpes

\* C29: a purl or cpe reference that does not parse is skipped without ending
\* the ingest: the package is added with its other references, no purl or cpe
\* is added for the reference, references of other types are ignored, and a
\* warning for the skipped reference is recorded in the report sink
C29_SkipAndWarn ==
    [][AddsWithUnparsable
           => /\ SkipsUnparsable
              /\ Len(sink') > Len(sink)]_vars

\* ------------------------------------------------------------------ C30

\* the update call of p has returned NotFound or MidAirCollision
UpdateFailed(p) ==
    /\ pc[p] = "done"
    /\ call[p].op \in UpdateOps
    /\ ret[p].kind \in {"NotFound", "MidAirCollision"}

\* C30: whatever creates and deletes of the same name run beside an update,
\* the error of a failed update tells what there was when its update statement
\* ran: NotFound only if there was no importer of the name then,
\* MidAirCollision only if there was one then, with another revision than the
\* expected one
C30_ErrorAtStatement ==
    \A p \in DOMAIN pc :
        UpdateFailed(p) =>
            /\ call[p].missed # None
            /\ ret[p].kind = "NotFound" => call[p].missed[1] = None
            /\ ret[p].kind = "MidAirCollision"
                   => /\ call[p].missed[1] # None
                      /\ call[p].expected # None
                      /\ RevText(call[p].missed[1][1]) # call[p].expected[1]

\* ------------------------------------------------------------------ C31

\* update_configuration and update_start
PoolUpdateOps == {"update_configuration", "update_start"}

\* this step belongs to a failing update_configuration or update_start call
\* of p: it is the update statement that affected no row or that the database
\* failed to execute, or the answer of the follow-up query
FailingStep(p) ==
    /\ call'[p].op \in PoolUpdateOps
    /\ \/ pc[p] = "update" /\ pc'[p] = "count"
       \/ pc[p] = "update" /\ ret'[p].kind = "Database"
       \/ pc[p] = "count" /\ pc'[p] = "done"

\* C31: a failed update_configuration or update_start (NotFound or
\* MidAirCollision) leaves the store as it was: no importer row is created,
\* every column of the existing row (configuration, state, last_change,
\* last_run, last_success, last_error, revision) is as before, no report row
\* changes and nothing is left pending, so a revision read earlier is still
\* the one a retry has to carry.
C31_FailedUpdateNoEffect ==
    [][\A p \in DOMAIN pc :
        FailingStep(p) =>
            /\ importers' = importers
            /\ reports' = reports
            /\ tx'[p] = NoTx
            /\ everRev' = everRev
            /\ (pc'[p] = "done" =>
                    ret'[p].kind \in {"NotFound", "MidAirCollision",
                                      "Database"})]_vars

\* an update_configuration with a stale revision has returned MidAirCollision
\* and one on a missing importer NotFound
C31_Witness ==
    \E p \in DOMAIN pc :
        /\ pc[p] = "done"
        /\ call[p].op = "update_configuration"
        /\ call[p].expected # None
        /\ \/ /\ ret[p] = Err("MidAirCollision")
              /\ call[p].name \in DOMAIN importers
              /\ importers[call[p].name].state = Running
           \/ /\ ret[p] = Err("NotFound")
              /\ importers = Empty

\* ------------------------------------------------------------------ C32

\* this step is a successful update_configuration of p on the importer of
\* name n
Configures(p, n) ==
    /\ pc[p] = "update" /\ pc'[p] = "done"
    /\ call'[p].op = "update_configuration" /\ call'[p].name = n
    /\ ret'[p].kind = "Ok"

\* C32: a successful update_configuration changes only the configuration and
\* the revision of the importer: its state (Waiting or Running), last_change,
\* last_run, last_success and last_error, every other importer and every
\* report row are as before, so a running importer stays Running.
C32_ConfigurationFrame ==
    [][\A p \in DOMAIN pc : \A n \in Names :
        Configures(p, n) =>
            /\ Stays(n)
            /\ importers'[n].revision # importers[n].revision
            /\ importers'[n].configuration \in {to_value(c) : c \in Configs}
            /\ importers'[n] =
                    [importers[n] EXCEPT
                        !.configuration = importers'[n].configuration,
                        !.revision = importers'[n].revision]
            /\ \A m \in DOMAIN importers \ {n} :
                    m \in DOMAIN importers' /\ importers'[m] = importers[m]
            /\ DOMAIN importers' = DOMAIN importers
            /\ reports' = reports]_vars

\* a running importer that had failed after an earlier success was given
\* another configuration and is still Running
C32_Witness ==
    \E p \in DOMAIN pc :
        /\ pc[p] = "done" /\ call[p].op = "update_configuration"
        /\ ret[p].kind = "Ok"
        /\ call[p].name \in DOMAIN importers
        /\ LET row == importers[call[p].name]
           IN  /\ row.state = Running
               /\ row.configuration = to_value("c2")
               /\ row.revision = 2
               /\ row.last_change = 0
               /\ clock = 1
               /\ row.last_error = Some("boom")
               /\ row.last_success = Some(0)

\* ------------------------------------------------------------------ C33

\* the call carries a revision that a row of the name n had before that row
\* was deleted
FromDeleted(c, n) ==
    /\ c.name = n
    /\ c.expected # None
    /\ c.expected[1] \in {RevText(u) : u \in gone[n]}

\* C33: no stale revision is accepted after delete and re-create: when the
\* importer n was deleted and created again, an update or a delete that
\* carries a revision n had before the delete modifies nothing: the update
\* statement affects no row and the call goes on to its error, the delete
\* returns false, and the new importer and the reports are as before.
C33_NoABA ==
    [][\A p \in DOMAIN pc : \A n \in DOMAIN importers :
        /\ (UpdateStatement(p) /\ FromDeleted(call'[p], n)) =>
                /\ pc'[p] = "count"
                /\ importers' = importers
                /\ tx'[p] = NoTx
                /\ reports' = reports
        /\ (Deletes(p) /\ FromDeleted(call'[p], n)) =>
                /\ ret'[p] = Ok(Some(FALSE))
                /\ importers' = importers
                /\ reports' = reports]_vars

\* the importer was created, deleted and created again, and an update that
\* carried the first revision has returned MidAirCollision
C33_Witness ==
    \E p \in DOMAIN pc :
        /\ pc[p] = "done"
        /\ call[p].op \in UpdateOps
        /\ call[p].name \in DOMAIN importers
        /\ FromDeleted(call[p], call[p].name)
        /\ ret[p] = Err("MidAirCollision")

\* ------------------------------------------------------------------ C34

\* this step is the successful commit of an update_finish call of p that was
\* given a report
AddsReport(p) == Commits(p) /\ call[p].report # None

\* C34: an importer has as many report rows as update_finish calls on it
\* with a report have returned success since it was last deleted (with no
\* delete: since the start); a report row is added only by the commit of
\* such a call, one row of that importer with the rows before kept, and
\* removed only by a delete that removed the importer; no other step (create,
\* update_configuration, update_start, a failed update_finish, get_reports)
\* adds, changes or removes a report row.
C34_ReportAccounting ==
    /\ [](\A n \in Names : Cardinality(ReportsOf(n)) = finished[n])
    /\ [][reports' # reports =>
            \E p \in DOMAIN pc :
                \/ /\ AddsReport(p)
                   /\ reports \subseteq reports'
                   /\ Cardinality(reports') = Cardinality(reports) + 1
                   /\ \A r \in reports' \ reports :
                        r.importer = call[p].name
                \/ /\ Deletes(p)
                   /\ ret'[p] = Ok(Some(TRUE))
                   /\ reports' = reports \ ReportsOf(call'[p].name)]_vars

\* two update_finish calls with a report have succeeded one after the other:
\* the importer has two report rows, the first of them kept by the second
\* commit
C34_Witness ==
    \E p \in DOMAIN pc :
        /\ pc[p] = "done" /\ call[p].op = "update_finish"
        /\ ret[p].kind = "Ok"
        /\ call[p].name \in DOMAIN importers
        /\ importers[call[p].name].revision = 4
        /\ \E r1, r2 \in ReportsOf(call[p].name) : r1.id = 3 /\ r2.id = 5
        /\ Cardinality(ReportsOf(call[p].name)) = 2
        /\ finished[call[p].name] = 2

\* ------------------------------------------------------------------ C35

\* a node id the document does not have is named ...
\* ... by an entry of documentDescribes
DanglingDescribes ==
    \E i \in DOMAIN sbom_data.document_describes :
        sbom_data.document_describes[i] \notin DocumentNodes

\* ... by the relationship at index i of the document
DanglingAt(i) ==
    \/ sbom_data.relationships[i].spdx_element_id \notin DocumentNodes
    \/ sbom_data.relationships[i].related_spdx_element \notin DocumentNodes

\* ... by a relationship whose kind has an internal kind
DanglingMapped == \E i \in Mapped : DanglingAt(i)

\* ... by a relationship whose kind has none
DanglingUnmapped ==
    \E i \in DOMAIN sbom_data.relationships \ Mapped : DanglingAt(i)

\* C35: only what survives the normalization is validated: the validation
\* ends the ingest with the invalid-reference error exactly when an entry of
\* documentDescribes or a relationship of a mapped kind names a node id the
\* document does not have; a relationship of an unmapped kind that names such
\* a node id does not make it fail.
C35_ValidatedAfterNormalization ==
    [][(at = "validate" /\ at' # "validate") =>
        IF DanglingDescribes \/ DanglingMapped
        THEN at' = "done" /\ outcome' = Some(Err("Generic"))
        ELSE at' = "packages" /\ outcome' = None]_vars

\* a document whose only relationship is of an unmapped kind and names a node
\* the document does not have has been ingested, with no relationship written
C35_Witness ==
    /\ at = "done"
    /\ outcome = Some(Ok(None))
    /\ DanglingUnmapped
    /\ sbom_data.relationships = <<Rel("SPDXRef-A", "Other", "SPDXRef-X")>>
    /\ graph.packages # {}
    /\ graph.relationships = {}

\* a document whose documentDescribes names a package it does not have has
\* failed at the validation
C35_WitnessDescribes ==
    /\ at = "done"
    /\ outcome = Some(Err("Generic"))
    /\ DanglingDescribes
    /\ ~DanglingMapped

\* ------------------------------------------------------------------ C36

\* fix_license applied to the document it returned: the same document, the
\* flag false and no message
Idempotent ==
    at = "done" =>
        LET again == fix_license(<<>>, outcome[1][1])
        IN  /\ ~again.panic
            /\ again.json = outcome[1][1]
            /\ ~again.changed
            /\ again.sink = <<>>

\* a step that changes the document is a round of the loop that repairs the
\* licenseDeclared of its package and leaves every other member, every other
\* package and the rest of the document as they are
OnlyLicenseDeclared ==
    json' # json =>
        /\ Fixes
        /\ json' =
            [json EXCEPT
                !.packages.array[idx].licenseDeclared = JString("NOASSERTION")]
        /\ as_str(json.packages.array[idx].licenseDeclared) # None

\* C36: fix_license is idempotent and touches only licenseDeclared: applied
\* to its own output it returns the same document with changed = false and
\* no message, and every application returns every part of the document
\* other than the licenseDeclared of the repaired packages unchanged, also
\* for a document with no packages array and for packages without a string
\* licenseDeclared.
C36_IdempotentFrame ==
    /\ []Idempotent
    /\ [](at # "panic")
    /\ [][OnlyLicenseDeclared]_vars

====
